---- MODULE Spec2Model ----
(***************************************************************************)
(* A model of the SSA subsystem of go-python: the append-only SSA context  *)
(* (Write, Eval, Spill, Fill, LoadInt) and the linear-scan register        *)
(* allocator (AllocateRegisters, generateSpill, generateFill).             *)
(*                                                                         *)
(* Element addresses are 0-based as in the Go code; TLA+ sequences are     *)
(* 1-based, so element i of a context c is c.Elements[i + 1] (see At).     *)
(* A *SsaElement of the rewritten context is identified with its Address   *)
(* in that context: every element of the rewritten context is a distinct   *)
(* object and none is modified once it has been written.                   *)
(***************************************************************************)
EXTENDS Integers, Sequences, FiniteSets, TLC

(***************************************************************************)
(* Bounds of the model.                                                    *)
(***************************************************************************)
\* longest source log built under Spec
MaxElems == 4
\* largest register count handed to AllocateRegisters under Spec
MaxRegs == 4
\* number of Write calls under SpecGrow (beyond the initial 128 slots)
MaxWrites == 130
\* longest chain built under SpecChain
MaxChain == 12

(***************************************************************************)
(* Program constants.                                                      *)
(***************************************************************************)
SSA_CALL == 0
SSA_SPILL == 1
SSA_FILL == 2
SSA_LOAD == 3
SSA_STORE == 4
SSA_ALU_MARK == 5
SSA_ADD == 6

SSA_TYPE_ELEMENT == 0
SSA_TYPE_INTEGER == 2

\* make([]*SsaElement, 128, 128) in Init
InitialSlots == 128
\* make([]*SsaElement, ctx.LastElementId+128, ...) in Write
GrowSlots == 128

(***************************************************************************)
(* Inputs.  A *big.Int is a pointer: BigInts are the pointers the callers  *)
(* hold and IntValue gives the number each one points to.  Pointers 1 and  *)
(* 2 are two big.NewInt(1000), pointer 3 is big.NewInt(500).               *)
(***************************************************************************)
IntValue == <<1000, 1000, 500>>
BigInts == DOMAIN IntValue

(***************************************************************************)
(* type SsaElement struct                                                  *)
(***************************************************************************)
NewElement ==
  [Op |-> 0, Src1 |-> 0, Src2 |-> 0, Src1Type |-> 0, Src2Type |-> 0,
   WasRead |-> FALSE, IsConst |-> FALSE, Pinned |-> FALSE,
   LiveStart |-> 0, LiveEnd |-> 0, ActiveStart |-> 0, ActiveEnd |-> 0,
   DstRegister |-> 0, Src1Register |-> 0, Src2Register |-> 0, Address |-> 0]

(***************************************************************************)
(* type SsaContext struct, and SsaContext.Init.  Elements holds the        *)
(* written prefix of the slice and Slots is len(ctx.Elements); the slots   *)
(* LastElementId..Slots-1 are nil.  IntIdx is keyed by the *big.Int.       *)
(***************************************************************************)
InitContext ==
  [LastElementId |-> 0, Elements |-> <<>>, Slots |-> InitialSlots,
   Ints |-> <<>>, IntIdx |-> <<>>,
   SpillRoomNeeded |-> 0, DisableLiveCheck |-> FALSE]

At(c, i) == c.Elements[i + 1]

MapPut(f, k, v) == [x \in (DOMAIN f) \cup {k} |-> IF x = k THEN v ELSE f[x]]

MapDel(f, k) == [x \in (DOMAIN f) \ {k} |-> f[x]]

(***************************************************************************)
(* SsaContext.Write, in the order of the code.  A value computed by one    *)
(* step and used by the next is handed on as an operator argument.         *)
(***************************************************************************)
\* the slice is reallocated when it is full; the written prefix is copied
GrowElements(c) ==
  IF c.LastElementId >= c.Slots
    THEN [c EXCEPT !.Slots = c.LastElementId + GrowSlots,
                   !.Elements = [i \in 1..c.LastElementId |-> c.Elements[i]]]
    ELSE c

\* MarkRead without the live-range update
MarkReadNoLiveEnd(elems, id, at) ==
  [elems EXCEPT ![id + 1].WasRead = TRUE]

\* ctx.Elements[id].WasRead = true; ctx.Elements[id].LiveEnd = LastElementId
MarkRead(elems, id, at) ==
  [elems EXCEPT ![id + 1].WasRead = TRUE, ![id + 1].LiveEnd = at]

\* "if el.SrcNType == SSA_TYPE_ELEMENT { ... }" under "if el.Op > SSA_ALU_MARK"
MarkOperand(elems, op, type, src, at) ==
  IF op > SSA_ALU_MARK /\ type = SSA_TYPE_ELEMENT
    THEN MarkRead(elems, src, at)
    ELSE elems

\* LiveCheck without "el.LiveEnd = ctx.LastElementId"
LiveCheckNoEnd(c, e) ==
  IF c.DisableLiveCheck
    THEN [ctx |-> c, el |-> e]
    ELSE [ctx |-> [c EXCEPT !.Elements =
                     MarkOperand(MarkOperand(@, e.Op, e.Src1Type, e.Src1,
                                             c.LastElementId),
                                 e.Op, e.Src2Type, e.Src2, c.LastElementId)],
          el |-> [e EXCEPT !.LiveStart = c.LastElementId]]

\* the live-range part of Write: the new element's range and its operands'
LiveCheck(c, e) ==
  IF c.DisableLiveCheck
    THEN [ctx |-> c, el |-> e]
    ELSE [ctx |-> [c EXCEPT !.Elements =
                     MarkOperand(MarkOperand(@, e.Op, e.Src1Type, e.Src1,
                                             c.LastElementId),
                                 e.Op, e.Src2Type, e.Src2, c.LastElementId)],
          el |-> [e EXCEPT !.LiveStart = c.LastElementId,
                           !.LiveEnd = c.LastElementId]]

\* StoreElement returning LastElementId after the increment
StoreElementRetNext(l) ==
  LET w == [l.el EXCEPT !.Address = l.ctx.LastElementId]
  IN [ctx |-> [l.ctx EXCEPT !.Elements = Append(@, w),
                            !.LastElementId = @ + 1],
      ret |-> l.ctx.LastElementId + 1]

\* "write a new element": l is the context and the element after LiveCheck
StoreElement(l) ==
  LET w == [l.el EXCEPT !.Address = l.ctx.LastElementId]
  IN [ctx |-> [l.ctx EXCEPT !.Elements = Append(@, w),
                            !.LastElementId = @ + 1],
      ret |-> w.Address]

\* Write gives the new context (ctx) and the value the call returns (ret)
Write(c, e) == StoreElement(LiveCheck(GrowElements(c), e))

\* SsaContext.Eval
Eval(c, op, src1, src2) ==
  Write(c, [NewElement EXCEPT !.Op = op, !.Src1 = src1, !.Src2 = src2,
                              !.Src1Type = SSA_TYPE_ELEMENT,
                              !.Src2Type = SSA_TYPE_ELEMENT])

\* SsaContext.Spill
Spill(c, to_slot, from_register) ==
  Write(c, [NewElement EXCEPT !.Op = SSA_SPILL, !.Src1 = to_slot,
                              !.DstRegister = from_register])

\* SsaContext.Fill
Fill(c, from_slot, to_register) ==
  Write(c, [NewElement EXCEPT !.Op = SSA_FILL, !.Src1 = from_slot,
                              !.DstRegister = to_register])

\* LoadInt: "ctx.IntIdx[v] = idx", w being what Write gave
MapInt(w, v) ==
  [ctx |-> [w.ctx EXCEPT !.IntIdx = MapPut(@, v, w.ret)], ret |-> w.ret]

\* LoadInt: is v interned already ?  The map is keyed by the pointer.
Interned(c, v) == v \in DOMAIN c.IntIdx

\* SsaContext.LoadInt
LoadInt(c, v) ==
  IF Interned(c, v)
    THEN [ctx |-> c, ret |-> c.IntIdx[v]]
    ELSE MapInt(Write([c EXCEPT !.Ints = Append(@, v)],
                      [NewElement EXCEPT !.Op = SSA_LOAD,
                                         !.Src1 = Cardinality(DOMAIN c.IntIdx),
                                         !.Src1Type = SSA_TYPE_INTEGER]),
                v)

(***************************************************************************)
(* type SsaMapContext struct, and SsaMapContext.Init.  The vectors are     *)
(* sequences whose last entry is the top (Push appends, Pop takes the      *)
(* last).  NoSpillElements is the key set of the map (only presence is     *)
(* ever tested); ActiveElements holds addresses of the rewritten context.  *)
(***************************************************************************)
InitMapContext ==
  [FreeSpillSlots |-> <<>>, NoSpillElements |-> {}, SpillMap |-> <<>>,
   RenameMap |-> <<>>, FreeRegs |-> <<>>, ActiveElements |-> <<>>]

Last(s) == s[Len(s)]

Front(s) == SubSeq(s, 1, Len(s) - 1)

\* vector.Delete(i), i a 1-based position
DeleteAt(s, i) == SubSeq(s, 1, i - 1) \o SubSeq(s, i + 1, Len(s))

(***************************************************************************)
(* The allocator's helpers work on a record s of the rewritten context nc, *)
(* the map context mc, the standard output out (the "spilled:" and         *)
(* "filled:" lines), ok (FALSE once the pass has panicked) and ret (the    *)
(* value the helper returns).                                              *)
(***************************************************************************)

\* generateSpill's test of one active element: may it become spill_el ?
SpillCandidate(mc, candidate_el) ==
  candidate_el.Address \in mc.NoSpillElements

\* generateSpill's loop over the active list from position i on; best is the
\* position of spill_el so far, 0 while spill_el is nil
RECURSIVE SpillScan(_, _, _, _)
SpillScan(nc, mc, i, best) ==
  IF i > Len(mc.ActiveElements)
    THEN best
    ELSE LET candidate_el == At(nc, mc.ActiveElements[i])
         IN IF /\ SpillCandidate(mc, candidate_el)
               /\ \/ best = 0
                  \/ At(nc, mc.ActiveElements[best]).LiveEnd < candidate_el.LiveEnd
              THEN SpillScan(nc, mc, i + 1, i)
              ELSE SpillScan(nc, mc, i + 1, best)

\* generateSpill's choice of the slot: a free one, else a new one
SpillSlot(mc) ==
  IF Len(mc.FreeSpillSlots) = 0
    THEN Cardinality(DOMAIN mc.SpillMap)
    ELSE Last(mc.FreeSpillSlots)

\* generateSpill: FreeSpillSlots.Pop() when a free slot was taken
PopSlot(mc) ==
  IF Len(mc.FreeSpillSlots) = 0 THEN mc ELSE [mc EXCEPT !.FreeSpillSlots = Front(@)]

\* TrackSpillRoom measuring the spill map before the victim was put in it
TrackSpillRoomBefore(c, mc) ==
  IF c.SpillRoomNeeded < Cardinality(DOMAIN mc.SpillMap) - 1
    THEN [c EXCEPT !.SpillRoomNeeded = Cardinality(DOMAIN mc.SpillMap) - 1]
    ELSE c

\* generateSpill: "make sure to track how much spill room is needed"
TrackSpillRoom(c, mc) ==
  IF c.SpillRoomNeeded < Cardinality(DOMAIN mc.SpillMap)
    THEN [c EXCEPT !.SpillRoomNeeded = Cardinality(DOMAIN mc.SpillMap)]
    ELSE c

\* generateSpill once spill_el (at position best) and free_slot are chosen
SpillElement(s, best, spill_el, free_slot) ==
  [nc |-> TrackSpillRoom(Spill(s.nc, free_slot, spill_el.DstRegister).ctx,
                         [s.mc EXCEPT !.SpillMap =
                            MapPut(@, spill_el.Address, free_slot)]),
   mc |-> [PopSlot(s.mc) EXCEPT
             !.SpillMap = MapPut(@, spill_el.Address, free_slot),
             !.ActiveElements = DeleteAt(@, best)],
   out |-> Append(s.out, [ev |-> "spilled", addr |-> spill_el.Address]),
   ok |-> TRUE,
   ret |-> spill_el.DstRegister]

\* generateSpill after its loop: panic when spill_el is nil
SpillChosen(s, best) ==
  IF best = 0
    THEN [s EXCEPT !.ok = FALSE]
    ELSE SpillElement(s, best, At(s.nc, s.mc.ActiveElements[best]), SpillSlot(s.mc))

\* SsaContext.generateSpill
generateSpill(s) == SpillChosen(s, SpillScan(s.nc, s.mc, 1, 0))

\* "find a free register (possibly by spilling another register)"
TakeRegister(s) ==
  IF Len(s.mc.FreeRegs) = 0
    THEN generateSpill(s)
    ELSE [s EXCEPT !.mc.FreeRegs = Front(@), !.ret = Last(s.mc.FreeRegs)]

\* generateFill's re-activation of the filled element
Activate(mc, fill_el, target_reg) ==
  [mc EXCEPT !.SpillMap = MapDel(@, fill_el.Address),
             !.ActiveElements = Append(@, fill_el.Address)]

\* generateFill's end: w is what Fill (the Write of the FILL element) gave
FillWritten(s, fill_el, w) ==
  [nc |-> w.ctx,
   mc |-> Activate(s.mc, fill_el, s.ret),
   out |-> Append(s.out, [ev |-> "filled", addr |-> fill_el.Address]),
   ok |-> TRUE,
   ret |-> w.ret]

\* generateFill once the target register is known: s is the state left by
\* TakeRegister, s.ret the target register
FillElement(s, fill_el, free_slot) ==
  IF ~s.ok
    THEN s
    ELSE FillWritten(s, fill_el, Fill(s.nc, free_slot, s.ret))

\* SsaContext.generateFill
generateFill(s, fill_el) ==
  FillElement(TakeRegister([s EXCEPT !.mc.FreeSpillSlots =
                                       Append(@, s.mc.SpillMap[fill_el.Address])]),
              fill_el, s.mc.SpillMap[fill_el.Address])

\* InitFreeRegs with the loop started at register 0
InitFreeRegsFromZero(n) == [i \in 1..n |-> i - 1]

\* InitFreeRegs stopping one register short
InitFreeRegsShort(n) == [i \in 1..(n - 2) |-> i]

\* AllocateRegisters: "push all the registers except 0 onto the free list"
InitFreeRegs(n) == [i \in 1..(n - 1) |-> i]

\* Survives without the Pinned test
SurvivesIfRead(old_el) == old_el.WasRead

\* Survives without the dead-code test
SurvivesAlways(old_el) == TRUE

\* AllocateRegisters: is the element emitted at all ?
Survives(old_el) == old_el.Pinned \/ old_el.WasRead

\* StaysActive expiring an element at the last element that reads it
StaysActiveBeyond(candidate_el, id) == candidate_el.LiveEnd > id

\* AllocateRegisters: does an active element stay active at ssa_id ?
StaysActive(candidate_el, id) == candidate_el.LiveEnd >= id

\* AllocateRegisters' loop over the active list from position i on: x.kept is
\* new_active_elements, x.free the free registers, x.el the current element
RECURSIVE ExpireScan(_, _, _, _, _)
ExpireScan(nc, active, i, id, x) ==
  IF i > Len(active)
    THEN x
    ELSE LET candidate_el == At(nc, active[i])
         IN IF StaysActive(candidate_el, id)
              THEN ExpireScan(nc, active, i + 1, id,
                              [x EXCEPT !.kept = Append(@, active[i])])
              ELSE ExpireScan(nc, active, i + 1, id,
                              [x EXCEPT !.free = Append(@, candidate_el.DstRegister),
                                        !.el.ActiveEnd = id])

\* Rename that keeps the index of the source log
RenameNone(mc, src) == src

\* AllocateRegisters: "check for (and perform) any needed renames"
Rename(mc, src) == IF src \in DOMAIN mc.RenameMap THEN mc.RenameMap[src] ELSE src

\* AllocateRegisters: "clear out the no-spill list"
ClearNoSpill(mc, e) ==
  [mc EXCEPT !.NoSpillElements = @ \ {e.Src1, e.Src2}]

(***************************************************************************)
(* State.                                                                  *)
(***************************************************************************)
VARIABLES
  ctx,       \* the source context
  lastCall,  \* the client's last call on ctx, what it returned, and the
             \* number of times Write has run on ctx so far
  pc,        \* "build": the client is building; then AllocateRegisters' position
  num_regs,  \* AllocateRegisters' argument
  ctx0,      \* the source context as it was when AllocateRegisters was called
  new_ctx,   \* AllocateRegisters' new_ctx
  mc,        \* AllocateRegisters' mc
  ssa_id,    \* AllocateRegisters' loop index
  el,        \* AllocateRegisters' el, the copy being rewritten
  out        \* standard output: the "spilled:" and "filled:" lines

\* the code stream and the machine (bytecode.go, machine.go)
VARIABLES
  stream,    \* the CodeStream s
  machine,   \* the Machine m
  others,    \* the number of names, other than those the client uses below,
             \* that were interned into the stream before; they hold the ids 0..others-1
  lastOp     \* the client's last call on the stream or the machine, what it returned
             \* (ret) and the Strings table before it (strings)

codeVars == <<stream, machine, others, lastOp>>

\* the boxed objects (intobject, floatobject, stringobject)
VARIABLES
  receiver,  \* the object o an arithmetic method is called on
  operand,   \* its argument r
  arith      \* the method called, the conversions of r it used and what it gave

objVars == <<receiver, operand, arith>>

\* the scanner (scanner.go)
VARIABLES
  scanner,   \* the Scanner s
  lastScan   \* the last call of Scan: the token it returned (tok), TokenText
             \* after it (text), the scanner before it (s) and the call before (prev)

scanVars == <<scanner, lastScan>>

\* the parser's input stream (stream.go)
VARIABLES
  input,     \* the Stream s: the list of contexts (streams) and the place in it
             \* of the current one (cur, 0 for nil)
  lastIo     \* the client's last call on the Stream and what it returned (ch, err),
             \* the Stream before it (s), the number of merges so far (merges) and
             \* the characters merged and not yet read, each merge in front of
             \* what was unread before it (rest; was before a Read)

inputVars == <<input, lastIo>>

ssaVars == <<ctx, lastCall, pc, num_regs, ctx0, new_ctx, mc, ssa_id, el, out>>

\* what the SSA operations leave alone
nonSsaVars == <<codeVars, objVars, scanVars, inputVars>>

\* what the code stream and machine operations leave alone
nonCodeVars == <<ssaVars, objVars, scanVars, inputVars>>

\* what the methods of the boxed objects leave alone
nonObjVars == <<ssaVars, codeVars, scanVars, inputVars>>

\* what Scan leaves alone
nonScanVars == <<ssaVars, codeVars, objVars, inputVars>>

\* what the Stream operations leave alone
nonInputVars == <<ssaVars, codeVars, objVars, scanVars>>

vars == <<ssaVars, codeVars, objVars, scanVars, inputVars>>

allocVars == <<num_regs, ctx0, new_ctx, mc, ssa_id, el, out>>

\* a code stream after Init into which n other names were interned
InitCodeStream(n) ==
  [Buffer |-> <<>>, Strings |-> <<>>, StringCounter |-> n,
   Locals |-> <<>>, Globals |-> <<>>]

\* the nil object, and a machine after new(Machine)
Nil == [type |-> "nil"]

InitMachine ==
  [Register |-> [r \in 0..15 |-> Nil], Pred |-> [p \in 0..31 |-> FALSE],
   NextInstruction |-> 0]

\* no code stream is in use
InitNoCode ==
  /\ stream = InitCodeStream(0)
  /\ machine = InitMachine
  /\ others = 0
  /\ lastOp = [op |-> "Init"]

\* no arithmetic method is called
InitNoObj ==
  /\ receiver = Nil
  /\ operand = Nil
  /\ arith = [op |-> "Init"]

\* s.Init(src) of a source that fits the source buffer: pos is the place in
\* src of the look-ahead character s.ch (Len(src) + 1 at the end of the
\* source), indentStack the slots 0..indentPos of s.indentStack (no slot above
\* indentPos is ever read), tokPos and tokEnd the places in src of the first
\* and the last character of the token text
InitScanner(src) ==
  [src |-> src, pos |-> 1, isNewline |-> TRUE, indentStack |-> <<0>>,
   indentPos |-> 0, tokPos |-> -1, tokEnd |-> -1]

\* newStream()
newStream == [streams |-> <<>>, cur |-> 0]

\* no Stream is in use
InitNoInput ==
  /\ input = newStream
  /\ lastIo = [op |-> "Init", merges |-> 0, rest |-> <<>>]

\* no scanner is in use
InitNoScan ==
  /\ scanner = InitScanner(<<>>)
  /\ lastScan = [op |-> "Init", tok |-> "Init"]

InitSsa ==
  /\ ctx = InitContext
  /\ lastCall = [op |-> "Init", arg |-> <<>>, ret |-> 0, writes |-> 0]
  /\ pc = "build"
  /\ num_regs = 0
  /\ ctx0 = InitContext
  /\ new_ctx = InitContext
  /\ mc = InitMapContext
  /\ ssa_id = 0
  /\ el = NewElement
  /\ out = <<>>

Init == InitSsa /\ InitNoCode /\ InitNoObj /\ InitNoScan /\ InitNoInput

\* elements a client hands to Write itself: a blank element (TestWriteElements),
\* a pinned STORE and a pinned ALU element over elements already written
WriteArgs(c) ==
  {NewElement,
   [NewElement EXCEPT !.Op = SSA_STORE, !.Src1Type = SSA_TYPE_INTEGER,
                      !.Pinned = TRUE]}
  \cup {[NewElement EXCEPT !.Op = SSA_ADD, !.Src1 = a, !.Src2 = b,
                           !.Pinned = TRUE] :
          a \in 0..(c.LastElementId - 1), b \in 0..(c.LastElementId - 1)}

\* the call returns: w is the new context and the returned value, n the
\* number of times the call ran Write
Returned(op, arg, w, n) ==
  /\ ctx' = w.ctx
  /\ lastCall' = [op |-> op, arg |-> arg, ret |-> w.ret,
                  writes |-> lastCall.writes + n]

DoWrite(e, max) ==
  /\ pc = "build"
  /\ ctx.LastElementId < max
  /\ Returned("Write", e, Write(ctx, e), 1)
  /\ UNCHANGED <<pc, allocVars>>
  /\ UNCHANGED nonSsaVars

DoEval(op, src1, src2, max) ==
  /\ pc = "build"
  /\ ctx.LastElementId < max
  /\ Returned("Eval", <<op, src1, src2>>, Eval(ctx, op, src1, src2), 1)
  /\ UNCHANGED <<pc, allocVars>>
  /\ UNCHANGED nonSsaVars

DoLoadInt(v, max) ==
  /\ pc = "build"
  /\ Interned(ctx, v) \/ ctx.LastElementId < max
  /\ Returned("LoadInt", v, LoadInt(ctx, v), IF Interned(ctx, v) THEN 0 ELSE 1)
  /\ UNCHANGED <<pc, allocVars>>
  /\ UNCHANGED nonSsaVars

(***************************************************************************)
(* AllocateRegisters, one action per stretch of the loop body.             *)
(*   "build" -> "loop"                       the call, up to the loop      *)
(*   "loop"  -> "loop" | "fill1" | "dst"     dead-code skip, or copy,      *)
(*                                           expiry, renames and no-spill  *)
(*   "fill1" -> "fill2" -> "dst"             the fills of Src1 and Src2    *)
(*   "dst"   -> "loop"                       destination register, Write   *)
(*   "loop"  -> "done"                       return new_ctx                *)
(* and "panic" once generateSpill has found no spillable register.         *)
(***************************************************************************)
AllocBegin(n) ==
  /\ pc = "build"
  /\ pc' = "loop"
  /\ num_regs' = n
  /\ ctx0' = ctx
  /\ new_ctx' = [InitContext EXCEPT !.DisableLiveCheck = TRUE]
  /\ mc' = [InitMapContext EXCEPT !.FreeRegs = InitFreeRegs(n)]
  /\ ssa_id' = 0
  /\ lastCall' = [op |-> "AllocateRegisters", arg |-> n, ret |-> 0,
                  writes |-> lastCall.writes]
  /\ UNCHANGED <<ctx, el, out>>
  /\ UNCHANGED nonSsaVars

AllocReturn ==
  /\ pc = "loop"
  /\ ~(ssa_id < ctx.LastElementId)
  /\ pc' = "done"
  /\ UNCHANGED <<ctx, lastCall, allocVars>>
  /\ UNCHANGED nonSsaVars

\* AllocSkip whose "continue" does not reach the loop's "ssa_id++"
AllocSkipStay ==
  /\ pc = "loop"
  /\ ssa_id < ctx.LastElementId
  /\ ~Survives(At(ctx, ssa_id))
  /\ UNCHANGED <<ssaVars, nonSsaVars>>

AllocSkip ==
  /\ pc = "loop"
  /\ ssa_id < ctx.LastElementId
  /\ ~Survives(At(ctx, ssa_id))
  /\ ssa_id' = ssa_id + 1
  /\ UNCHANGED <<ctx, lastCall, pc, num_regs, ctx0, new_ctx, mc, el, out>>
  /\ UNCHANGED nonSsaVars

\* the renames and the marking of the operands as not to be spilled
RenameOperands(m, e) ==
  IF e.Op > SSA_ALU_MARK
    THEN [el |-> [e EXCEPT !.Src1 = Rename(m, e.Src1), !.Src2 = Rename(m, e.Src2)],
          mc |-> [m EXCEPT !.NoSpillElements =
                    @ \cup {Rename(m, e.Src1), Rename(m, e.Src2)}]]
    ELSE [el |-> e, mc |-> m]

\* after the expiry loop: x is what ExpireScan gave
Expired(m, x, id) ==
  RenameOperands([m EXCEPT !.ActiveElements = x.kept, !.FreeRegs = x.free],
                 [x.el EXCEPT !.ActiveStart = id])

\* the copy of old_el, the expiry of active elements, the renames and the
\* marking of the operands as not to be spilled
BeginElement(nc, m, old_el, id) ==
  Expired(m, ExpireScan(nc, m.ActiveElements, 1, id,
                        [kept |-> <<>>, free |-> m.FreeRegs, el |-> old_el]),
          id)

\* the state handed to the helpers
AllocState == [nc |-> new_ctx, mc |-> mc, out |-> out, ok |-> TRUE, ret |-> 0]

\* the element being rewritten, at pc = "loop"
BegunElement == BeginElement(new_ctx, mc, At(ctx, ssa_id), ssa_id)

Begun(x) ==
  /\ el' = x.el
  /\ mc' = x.mc
  /\ pc' = IF x.el.Op > SSA_ALU_MARK THEN "fill1" ELSE "dst"

AllocElement ==
  /\ pc = "loop"
  /\ ssa_id < ctx.LastElementId
  /\ Survives(At(ctx, ssa_id))
  /\ Begun(BegunElement)
  /\ UNCHANGED <<ctx, lastCall, num_regs, ctx0, new_ctx, ssa_id, out>>
  /\ UNCHANGED nonSsaVars

\* "if _, spilled := mc.SpillMap[src]; spilled { src = generateFill(...) }"
FillOperand(s, src) ==
  IF src \in DOMAIN s.mc.SpillMap
    THEN generateFill(s, At(s.nc, src))
    ELSE [s EXCEPT !.ret = src]

\* the state after the fill of operand n (1 or 2); s.ret is the operand's name
Filled(s, n, next) ==
  IF s.ok
    THEN /\ pc' = next
         /\ new_ctx' = s.nc
         /\ mc' = s.mc
         /\ out' = s.out
         /\ el' = IF n = 1 THEN [el EXCEPT !.Src1 = s.ret]
                           ELSE [el EXCEPT !.Src2 = s.ret]
    ELSE /\ pc' = "panic"
         /\ UNCHANGED <<new_ctx, mc, out, el>>

AllocFill1 ==
  /\ pc = "fill1"
  /\ Filled(FillOperand(AllocState, el.Src1), 1, "fill2")
  /\ UNCHANGED <<ctx, lastCall, num_regs, ctx0, ssa_id>>
  /\ UNCHANGED nonSsaVars

AllocFill2 ==
  /\ pc = "fill2"
  /\ Filled(FillOperand(AllocState, el.Src2), 2, "dst")
  /\ UNCHANGED <<ctx, lastCall, num_regs, ctx0, ssa_id>>
  /\ UNCHANGED nonSsaVars

\* TrackRegister leaving the source context alone
TrackNoRegister(c, id, e) == c

\* TrackRegister copying the whole element back: *old_el = *el
TrackElement(c, id, e) ==
  [c EXCEPT !.Elements[id + 1] = e]

\* "track the register in the new and old context"
TrackRegister(c, id, e) ==
  [c EXCEPT !.Elements[id + 1].DstRegister = e.DstRegister]

\* after the Write of el into new_ctx (w): rename map, activation of el and
\* clearing of the no-spill list
Written(s, e, id, w) ==
  [nc |-> w.ctx,
   mc |-> ClearNoSpill([s.mc EXCEPT !.RenameMap = MapPut(@, id, w.ret),
                                    !.ActiveElements = Append(@, e.Address)],
                       e),
   out |-> s.out, ok |-> TRUE, ret |-> w.ret, el |-> e]

\* the Write of el into new_ctx; the object keeps the Address Write gives it
WriteElement(s, e, id) ==
  Written(s, [e EXCEPT !.Address = s.nc.LastElementId], id, Write(s.nc, e))

\* the destination register (s is the state left by TakeRegister) and the Write
EmitElement(s, e, id) ==
  IF ~s.ok
    THEN [nc |-> s.nc, mc |-> s.mc, out |-> s.out, ok |-> FALSE, ret |-> 0,
          el |-> e]
    ELSE WriteElement(s, [e EXCEPT !.DstRegister = s.ret], id)

Emitted(s) ==
  IF s.ok
    THEN /\ pc' = "loop"
         /\ new_ctx' = s.nc
         /\ mc' = s.mc
         /\ out' = s.out
         /\ el' = s.el
         /\ ctx' = TrackRegister(ctx, ssa_id, s.el)
         /\ ssa_id' = ssa_id + 1
    ELSE /\ pc' = "panic"
         /\ UNCHANGED <<new_ctx, mc, out, el, ctx, ssa_id>>

AllocEmit ==
  /\ pc = "dst"
  /\ Emitted(EmitElement(TakeRegister(AllocState), el, ssa_id))
  /\ UNCHANGED <<lastCall, num_regs, ctx0>>
  /\ UNCHANGED nonSsaVars

AllocLoop ==
  \/ AllocReturn
  \/ AllocSkip
  \/ AllocElement
  \/ AllocFill1
  \/ AllocFill2
  \/ AllocEmit

(***************************************************************************)
(* Spec: a client builds a source log with Write, Eval and LoadInt and     *)
(* then calls AllocateRegisters.  Operands name elements already written   *)
(* (Write dereferences ctx.Elements[el.Src1]).                             *)
(***************************************************************************)
Next ==
  \/ \E e \in WriteArgs(ctx) : DoWrite(e, MaxElems)
  \/ \E a \in 0..(ctx.LastElementId - 1), b \in 0..(ctx.LastElementId - 1) :
        DoEval(SSA_ADD, a, b, MaxElems)
  \/ \E v \in BigInts : DoLoadInt(v, MaxElems)
  \/ \E n \in 1..MaxRegs : AllocBegin(n)
  \/ AllocLoop

Spec == Init /\ [][Next]_vars

(***************************************************************************)
(* SpecGrow: TestWriteElements, a blank element written again and again,   *)
(* past the 128 slots Init makes.                                          *)
(***************************************************************************)
NextGrow == DoWrite(NewElement, MaxWrites)

SpecGrow == Init /\ [][NextGrow]_vars

(***************************************************************************)
(* SpecChain: TestRegisterAllocation, the chain 1000 + 1000 + ... + 1000   *)
(* built on one interned literal and allocated with 4 registers.           *)
(***************************************************************************)
\* ctx.AllocateRegisters(4) in TestRegisterAllocation
ChainRegs == 4

\* the literal of the chain: some_int
ChainInt == 1

ChainLoad ==
  /\ ctx.LastElementId = 0
  /\ DoLoadInt(ChainInt, MaxChain)

\* "if old_sum_el == 0 { Eval(SSA_ADD, some_int_id, some_int_id) } else
\*  { Eval(SSA_ADD, some_int_id, old_sum_el) }"
ChainEval ==
  /\ ctx.LastElementId >= 1
  /\ DoEval(SSA_ADD, ctx.IntIdx[ChainInt],
            IF ctx.LastElementId = 1 THEN ctx.IntIdx[ChainInt]
                                     ELSE ctx.LastElementId - 1,
            MaxChain)

NextChain ==
  \/ ChainLoad
  \/ ChainEval
  \/ AllocBegin(ChainRegs)
  \/ AllocLoop

SpecChain == Init /\ [][NextChain]_vars

(***************************************************************************)
(* Properties.                                                             *)
(***************************************************************************)
AllocPcs == {"loop", "fill1", "fill2", "dst", "done", "panic"}

\* the addresses of a context, in order
Addrs(c) == [i \in 1..c.LastElementId |-> i - 1]

\* the elements of the source context that read element r
Readers(c, r) ==
  {i \in 0..(c.LastElementId - 1) :
     /\ At(c, i).Op > SSA_ALU_MARK
     /\ \/ At(c, i).Src1Type = SSA_TYPE_ELEMENT /\ At(c, i).Src1 = r
        \/ At(c, i).Src2Type = SSA_TYPE_ELEMENT /\ At(c, i).Src2 = r}

Max(S) == CHOOSE x \in S : \A y \in S : y <= x

\* C1: SSA append id.  In a context that is only written to, the n-th call of
\* Write (counting from 0) returns n and LastElementId is the number of writes
\* performed so far, also once the storage has grown past its initial 128
\* slots; every written slot holds an element.
C1_AppendId ==
  /\ ctx.LastElementId = lastCall.writes
  /\ Len(ctx.Elements) = ctx.LastElementId
  /\ ctx.LastElementId <= ctx.Slots
  /\ lastCall.op = "Write" => lastCall.ret = lastCall.writes - 1

\* C1 witness: the write that follows the growth of the storage has returned
C1_Witness ==
  /\ lastCall.op = "Write"
  /\ lastCall.ret = InitialSlots + 1
  /\ ctx.Slots = InitialSlots + GrowSlots

\* C2: literal interning.  Two LoadInt calls with equal integer values return
\* the same element id and the second one appends no element: after any
\* LoadInt(v), every interned integer equal to v has the id the call returned.
C2_Interning ==
  lastCall.op = "LoadInt" =>
    \A q \in DOMAIN ctx.IntIdx :
      IntValue[q] = IntValue[lastCall.arg] => ctx.IntIdx[q] = lastCall.ret

\* C3: live range closure.  With live checks enabled, right after Write or Eval
\* has appended an ALU element at index i, every element R named by one of its
\* element-reference operands has LiveEnd = i and WasRead; and at any time the
\* LiveEnd of an element that has been read is the index of its latest reader.
C3_LiveRange ==
  /\ (pc = "build" /\ lastCall.op \in {"Write", "Eval"}) =>
       \A r \in 0..(ctx.LastElementId - 1) :
         (ctx.LastElementId - 1) \in Readers(ctx, r) =>
           /\ At(ctx, r).LiveEnd = ctx.LastElementId - 1
           /\ At(ctx, r).WasRead
  /\ \A r \in 0..(ctx.LastElementId - 1) :
       IF Readers(ctx, r) = {}
         THEN At(ctx, r).LiveEnd = r /\ ~At(ctx, r).WasRead
         ELSE At(ctx, r).LiveEnd = Max(Readers(ctx, r)) /\ At(ctx, r).WasRead

\* C3 witness: an element read twice, the second reader being the last call
C3_Witness ==
  /\ pc = "build"
  /\ lastCall.op = "Eval"
  /\ \E r \in 0..(ctx.LastElementId - 1) :
       /\ Cardinality(Readers(ctx, r)) >= 2
       /\ (ctx.LastElementId - 1) \in Readers(ctx, r)
       /\ At(ctx, r).LiveEnd = ctx.LastElementId - 1

(***************************************************************************)
(* The rewritten log.  The k-th SPILL element was written by the call of   *)
(* generateSpill that printed the k-th "spilled:" line, and the k-th FILL  *)
(* element by the call of generateFill that printed the k-th "filled:"     *)
(* line; the line names the element whose value was moved.                 *)
(***************************************************************************)
IsAux(e) == e.Op = SSA_SPILL \/ e.Op = SSA_FILL

IsAlu(e) == e.Op > SSA_ALU_MARK

\* the addresses of the elements of c with operation op, in order
OpAddrs(c, op) == SelectSeq(Addrs(c), LAMBDA a : At(c, a).Op = op)

\* the "spilled:" ("filled:") lines of the output, in order
Events(o, ev) == SelectSeq(o, LAMBDA x : x.ev = ev)

\* the position of a in the sequence q
IndexOf(q, a) == CHOOSE k \in DOMAIN q : q[k] = a

\* the element whose register the SPILL element at address a saved
VictimOf(a) == Events(out, "spilled")[IndexOf(OpAddrs(new_ctx, SSA_SPILL), a)].addr

\* the element whose value the FILL element at address a reloaded
RefilledBy(a) == Events(out, "filled")[IndexOf(OpAddrs(new_ctx, SSA_FILL), a)].addr

\* the value an operand names: the copy itself, or the copy a FILL reloaded
ValueOf(x) == IF At(new_ctx, x).Op = SSA_FILL THEN RefilledBy(x) ELSE x

\* the element-reference operands of the rewritten element at address k
Operands(k) ==
  {At(new_ctx, k).Src1 : t \in {At(new_ctx, k).Src1Type} \cap {SSA_TYPE_ELEMENT}}
  \cup {At(new_ctx, k).Src2 : t \in {At(new_ctx, k).Src2Type} \cap {SSA_TYPE_ELEMENT}}

\* the SPILL elements before address k that saved the value v
SpillsOf(v, k) ==
  {j \in 0..(k - 1) : At(new_ctx, j).Op = SSA_SPILL /\ VictimOf(j) = v}

\* the FILL elements between j and k that reloaded the value v from slot
FillsOf(v, j, k, slot) ==
  {f \in (j + 1)..(k - 1) :
     /\ At(new_ctx, f).Op = SSA_FILL
     /\ RefilledBy(f) = v
     /\ At(new_ctx, f).Src1 = slot}

\* the value v read by the element at k is in a register: it was never
\* spilled, or exactly one FILL of the slot of its latest SPILL follows it
InRegister(v, k) ==
  SpillsOf(v, k) # {} =>
    Cardinality(FillsOf(v, Max(SpillsOf(v, k)), k,
                        At(new_ctx, Max(SpillsOf(v, k))).Src1)) = 1

SpillSymmetry ==
  \A k \in 0..(new_ctx.LastElementId - 1) :
    IsAlu(At(new_ctx, k)) =>
      \A x \in Operands(k) : x < k /\ InRegister(ValueOf(x), k)

\* C4: spill symmetry.  In the log AllocateRegisters returns, every SPILL of a
\* value is followed by exactly one FILL of the same slot before any later
\* element reads that value: no rewritten ALU element reads an operand whose
\* value is in a spill slot.
C4_SpillSymmetry == pc = "done" => SpillSymmetry

\* the source elements before address n that AllocateRegisters must emit
Survivors(n) ==
  SelectSeq([i \in 1..n |-> i - 1],
            LAMBDA i : At(ctx0, i).Pinned \/ At(ctx0, i).WasRead)

\* the copies of source elements in the rewritten log, in order
Copies == SelectSeq(Addrs(new_ctx), LAMBDA a : ~IsAux(At(new_ctx, a)))

\* C5: allocator order preservation.  The n-th surviving source element is the
\* n-th non-SPILL/FILL element of the rewritten log, and the SPILL and FILL
\* elements emitted for an element precede its copy: between two elements of
\* the pass the rewritten log ends with a copy.
C5_OrderPreserved ==
  pc \in AllocPcs =>
    /\ Len(Copies) = Len(Survivors(ssa_id))
    /\ \A n \in DOMAIN Copies :
         /\ At(new_ctx, Copies[n]).ActiveStart = Survivors(ssa_id)[n]
         /\ At(new_ctx, Copies[n]).Op = At(ctx0, Survivors(ssa_id)[n]).Op
         /\ At(new_ctx, Copies[n]).Pinned = At(ctx0, Survivors(ssa_id)[n]).Pinned
         /\ mc.RenameMap[Survivors(ssa_id)[n]] = Copies[n]
    /\ (pc \in {"loop", "done"} /\ new_ctx.LastElementId > 0) =>
         ~IsAux(At(new_ctx, new_ctx.LastElementId - 1))

\* C5 witness: a finished pass with a dead element between two survivors and
\* SPILL and FILL elements in the rewritten log
C5_Witness ==
  /\ pc = "done"
  /\ Len(Copies) >= 2
  /\ Len(Copies) < new_ctx.LastElementId
  /\ \E i \in 0..(ctx0.LastElementId - 1) :
       /\ ~(At(ctx0, i).Pinned \/ At(ctx0, i).WasRead)
       /\ \E n \in DOMAIN Copies : At(new_ctx, Copies[n]).ActiveStart < i
       /\ \E n \in DOMAIN Copies : At(new_ctx, Copies[n]).ActiveStart > i

\* C6: for every register count N >= 3, AllocateRegisters(N) never reaches
\* the failure "There are no spillable registers."
C6_NoPanic == num_regs >= 3 => pc # "panic"

\* is the source element at address i live code ?
Alive(i) == At(ctx0, i).Pinned \/ At(ctx0, i).WasRead

\* the copies of the source element at address i in the rewritten log
CopiesOf(i) ==
  {a \in 0..(new_ctx.LastElementId - 1) :
     ~IsAux(At(new_ctx, a)) /\ At(new_ctx, a).ActiveStart = i}

\* what is true of the elements 0..ssa_id-1 the pass has gone through
SkippedDead ==
  pc \in AllocPcs =>
    \A i \in 0..(ssa_id - 1) :
      IF Alive(i)
        THEN /\ Cardinality(CopiesOf(i)) = 1
             /\ i \in DOMAIN mc.RenameMap
        ELSE /\ CopiesOf(i) = {}
             /\ i \notin DOMAIN mc.RenameMap
             /\ At(ctx, i) = At(ctx0, i)

\* the step of the pass over a dead element: only the loop index moves
SkipStep ==
  (pc = "loop" /\ ssa_id < ctx.LastElementId /\ ~Alive(ssa_id)) =>
    /\ ssa_id' = ssa_id + 1
    /\ pc' = "loop"
    /\ UNCHANGED <<ctx, new_ctx, mc, out>>

\* C7: dead-code skip.  AllocateRegisters emits exactly one copy for each
\* source element that is pinned or was read, and for an element that is
\* neither it emits nothing and consumes nothing: no copy, no SPILL, no FILL,
\* no register, no rename; an interned literal that is never read is absent
\* from the rewritten log.
C7_DeadCodeSkip == []SkippedDead /\ [][SkipStep]_vars

\* C7 witness: a finished pass over a log with a literal LOAD that is dead,
\* a live element after it, and registers in use
C7_Witness ==
  /\ pc = "done"
  /\ new_ctx.LastElementId > 0
  /\ \E i \in 0..(ctx0.LastElementId - 1) :
       /\ At(ctx0, i).Op = SSA_LOAD
       /\ ~Alive(i)
       /\ i \in {ctx0.IntIdx[v] : v \in DOMAIN ctx0.IntIdx}
       /\ CopiesOf(i) = {}
       /\ \E j \in (i + 1)..(ctx0.LastElementId - 1) : CopiesOf(j) # {}

\* C8 as stated: after the pass, LastElementId and every field of every
\* element of the source context have the values they had before the pass.
C8_SourceReadOnly == pc = "done" => ctx = ctx0

\* C8 amended: the pass changes nothing of the source context but the
\* DstRegister of the elements it emits, which becomes the register of the
\* element's copy; all other output goes to the second context.
C8_SourceKeepsAllButDstRegister ==
  pc \in AllocPcs =>
    /\ [ctx EXCEPT !.Elements = ctx0.Elements] = ctx0
    /\ Len(ctx.Elements) = Len(ctx0.Elements)
    /\ \A i \in 0..(ctx0.LastElementId - 1) :
         /\ [At(ctx, i) EXCEPT !.DstRegister = At(ctx0, i).DstRegister] = At(ctx0, i)
         /\ At(ctx, i).DstRegister =
              IF i < ssa_id /\ Alive(i)
                THEN At(new_ctx, mc.RenameMap[i]).DstRegister
                ELSE At(ctx0, i).DstRegister

\* C8 witness: a finished pass that emitted a renamed element and stamped its
\* register on the source
C8_Witness ==
  /\ pc = "done"
  /\ \E i \in DOMAIN mc.RenameMap :
       /\ mc.RenameMap[i] # i
       /\ At(ctx, i).DstRegister # At(ctx0, i).DstRegister
       /\ At(ctx, i).DstRegister = At(new_ctx, mc.RenameMap[i]).DstRegister

\* operand n (1 or 2) of an element
Src(e, n) == IF n = 1 THEN e.Src1 ELSE e.Src2

SrcType(e, n) == IF n = 1 THEN e.Src1Type ELSE e.Src2Type

\* the operand x of a rewritten element names the copy of the source operand
\* orig, or the FILL element that reloaded that copy
NamesRewritten(x, orig) ==
  /\ orig \in DOMAIN mc.RenameMap
  /\ \/ x = mc.RenameMap[orig]
     \/ At(new_ctx, x).Op = SSA_FILL /\ RefilledBy(x) = mc.RenameMap[orig]

\* C9: renamed operands.  For every ALU element E' of the rewritten log, each
\* element-reference operand is an index of the rewritten log smaller than
\* E'.Address that names the copy of the original operand or the FILL element
\* that reloaded it.
C9_OperandsRenamed ==
  pc \in AllocPcs =>
    \A k \in 0..(new_ctx.LastElementId - 1) :
      IsAlu(At(new_ctx, k)) =>
        \A n \in 1..2 :
          SrcType(At(new_ctx, k), n) = SSA_TYPE_ELEMENT =>
            /\ Src(At(new_ctx, k), n) < At(new_ctx, k).Address
            /\ At(new_ctx, k).Address = k
            /\ NamesRewritten(Src(At(new_ctx, k), n),
                              Src(At(ctx0, At(new_ctx, k).ActiveStart), n))

\* C9 witness: a finished pass with an operand that names a FILL element and
\* an operand that names a copy whose index differs from the source index
C9_Witness ==
  /\ pc = "done"
  /\ \E k \in 0..(new_ctx.LastElementId - 1) :
       /\ IsAlu(At(new_ctx, k))
       /\ At(new_ctx, At(new_ctx, k).Src1).Op = SSA_FILL
  /\ \E k \in 0..(new_ctx.LastElementId - 1) :
       /\ IsAlu(At(new_ctx, k))
       /\ ~IsAux(At(new_ctx, At(new_ctx, k).Src2))
       /\ At(new_ctx, k).Src2 # At(ctx0, At(new_ctx, k).ActiveStart).Src2

\* C10: the chain e_1 = ADD(lit, lit), e_i = ADD(lit, e_{i-1}) on one
\* interned literal.  AllocateRegisters(4) does not fail, the literal's LOAD
\* stays active from its emission on, is never spilled, and
\* SpillRoomNeeded is at most 2.
C10_Chain ==
  pc \in AllocPcs =>
    /\ pc # "panic"
    /\ new_ctx.SpillRoomNeeded <= 2
    /\ (/\ ChainInt \in DOMAIN ctx0.IntIdx
        /\ ctx0.IntIdx[ChainInt] \in DOMAIN mc.RenameMap) =>
         /\ \E i \in DOMAIN mc.ActiveElements :
              mc.ActiveElements[i] = mc.RenameMap[ctx0.IntIdx[ChainInt]]
         /\ mc.RenameMap[ctx0.IntIdx[ChainInt]] \notin DOMAIN mc.SpillMap
         /\ \A j \in DOMAIN out :
              ~(out[j].ev = "spilled"
                /\ out[j].addr = mc.RenameMap[ctx0.IntIdx[ChainInt]])
         /\ At(new_ctx, mc.RenameMap[ctx0.IntIdx[ChainInt]]).ActiveEnd = 0

\* C10 witness: the pass over the longest chain has returned; the last chain
\* element is read by nothing and is dropped, no register was spilled
C10_Witness ==
  /\ pc = "done"
  /\ num_regs = ChainRegs
  /\ ctx0.LastElementId = MaxChain
  /\ new_ctx.LastElementId = MaxChain - 1
  /\ out = <<>>
  /\ At(ctx0, ctx0.LastElementId - 1).Src1 = ctx0.IntIdx[ChainInt]
  /\ At(ctx0, ctx0.LastElementId - 1).Src2 = ctx0.LastElementId - 2

(***************************************************************************)
(* The instruction encoder (bytecode.go) and the machine (machine.go).     *)
(* Instructions are uint32; the operators below are Go's &, |, << and >>   *)
(* on uint32.                                                              *)
(***************************************************************************)
\* A uint32 is the set of the positions of its 1 bits (TLC's integers stop
\* short of 2^32).  Bits gives the uint32 of a number below 2^31, Num the
\* number of a uint32 whose bit 31 is 0.
WordBits == 0..31

Bits(n) == {b \in 0..30 : (n \div 2 ^ b) % 2 = 1}

RECURSIVE Num(_)
Num(a) ==
  IF a = {} THEN 0
  ELSE 2 ^ (CHOOSE b \in a : TRUE) + Num(a \ {CHOOSE b \in a : TRUE})

\* the values of a uint16 (StringCounter, the immediate)
Word16 == 65536

\* the values of a byte
Byte == 256

\* a & b
BitAnd(a, b) == a \cap b

\* a | b
BitOr(a, b) == a \cup b

\* a << n
Shl(a, n) == {b + n : b \in a} \cap WordBits

\* a >> n
Shr(a, n) == {b - n : b \in {x \in a : x >= n}}

\* uint16(a)
Uint16(a) == a \cap 0..15

\* byte(a)
Uint8(a) == a \cap 0..7

\* opcodes
NOP == 0
LOAD == 16
BIND == 17
ADD == 38

\* "All instruction types"
instruction_mask == Bits(63)
pred_execute_mask == Bits(64)
pred_reg_mask == Bits(3968)
pred_execute_shift == 6
pred_reg_shift == 7

\* "Register mode instruction types"
source_reg1_mask == Bits(61440)
source_reg2_mask == Bits(983040)
target_reg_mask == Bits(15728640)
source_reg1_shift == 12
source_reg2_shift == 16
target_reg_shift == 20

\* "Immediate mode instruction types"
imm_target_reg_mask == Bits(61440)
\* 0xFFFF0000
immediate_val_mask == Shl(Bits(65535), 16)
imm_target_reg_shift == 12
immediate_val_shift == 16

\* binary.Write with the bytes in big-endian order
BigEndian(w) ==
  <<Num(Uint8(Shr(w, 24))), Num(Uint8(Shr(w, 16))), Num(Uint8(Shr(w, 8))),
    Num(Uint8(w))>>

\* binary.Write(s, binary.LittleEndian, instruction): the four bytes
LittleEndian(w) ==
  <<Num(Uint8(w)), Num(Uint8(Shr(w, 8))), Num(Uint8(Shr(w, 16))),
    Num(Uint8(Shr(w, 24)))>>

\* binary.Read(c, binary.LittleEndian, &instruction) of four bytes
FromLittleEndian(b) ==
  BitOr(BitOr(Bits(b[1]), Shl(Bits(b[2]), 8)),
        BitOr(Shl(Bits(b[3]), 16), Shl(Bits(b[4]), 24)))

\* CodeStream.Name: the stream after the call (s) and the id returned (ret)
Name(cs, name) ==
  IF name \in DOMAIN cs.Strings
    THEN [s |-> cs, ret |-> cs.Strings[name]]
    ELSE [s |-> [cs EXCEPT !.Strings = MapPut(@, name, cs.StringCounter),
                           !.StringCounter = (cs.StringCounter + 1) % Word16],
          ret |-> cs.StringCounter]

\* BindLocal after its call of Name (n)
BindId(n, o) == [n.s EXCEPT !.Locals = MapPut(@, n.ret, o)]

\* CodeStream.BindLocal
BindLocal(cs, n, o) == BindId(Name(cs, n), o)

\* "if pred_bit { instruction |= 1<<pred_execute_shift }"
WithPredBit(instruction, pred_bit) ==
  IF pred_bit THEN BitOr(instruction, Shl(Bits(1), pred_execute_shift))
              ELSE instruction

\* ImmInstruction with the target register in the register-mode field
ImmInstructionRegMode(op, value, register, pred_bit, pred_reg) ==
  WithPredBit(BitOr(BitOr(BitOr(Bits(op), Shl(Bits(pred_reg), pred_reg_shift)),
                          Shl(Bits(value), immediate_val_shift)),
                    Shl(Bits(register), target_reg_shift)),
              pred_bit)

\* the instruction word of WriteLoad and WriteBind
ImmInstruction(op, value, register, pred_bit, pred_reg) ==
  WithPredBit(BitOr(BitOr(BitOr(Bits(op), Shl(Bits(pred_reg), pred_reg_shift)),
                          Shl(Bits(value), immediate_val_shift)),
                    Shl(Bits(register), imm_target_reg_shift)),
              pred_bit)

\* WriteLoad and WriteBind after their call of Name (n)
WriteImm(n, op, register, pred_bit, pred_reg) ==
  [n.s EXCEPT !.Buffer =
     @ \o LittleEndian(ImmInstruction(op, n.ret, register, pred_bit, pred_reg))]

\* CodeStream.WriteLoad
WriteLoad(cs, name, register, pred_bit, pred_reg) ==
  WriteImm(Name(cs, name), LOAD, register, pred_bit, pred_reg)

\* CodeStream.WriteBind
WriteBind(cs, name, register, pred_bit, pred_reg) ==
  WriteImm(Name(cs, name), BIND, register, pred_bit, pred_reg)

\* the instruction word of the ALU writer (register mode encoding)
AluInstruction(op, reg1, reg2, target, pred_bit, pred_reg) ==
  WithPredBit(BitOr(BitOr(BitOr(BitOr(Bits(op), Shl(Bits(pred_reg), pred_reg_shift)),
                                Shl(Bits(reg1), source_reg1_shift)),
                          Shl(Bits(reg2), source_reg2_shift)),
                    Shl(Bits(target), target_reg_shift)),
              pred_bit)

\* CodeStream.WriteAluIns
WriteAluIns(cs, op, reg1, reg2, target, pred_bit, pred_reg) ==
  [cs EXCEPT !.Buffer =
     @ \o LittleEndian(AluInstruction(op, reg1, reg2, target, pred_bit, pred_reg))]

\* Dispatch's fetch: binary.Read leaves instruction 0 when the stream is empty
Fetch(cs) ==
  IF Len(cs.Buffer) >= 4
    THEN [s |-> [cs EXCEPT !.Buffer = SubSeq(@, 5, Len(@))],
          instruction |-> FromLittleEndian(SubSeq(cs.Buffer, 1, 4))]
    ELSE [s |-> [cs EXCEPT !.Buffer = <<>>], instruction |-> Bits(0)]

\* Dispatch's decoder stage
Decode(instruction, op) ==
  IF op <= 15
    THEN [op |-> op, reg3 |-> 0, imm |-> 0]
  ELSE IF op <= 31
    THEN [op |-> op,
          reg3 |-> Num(Shr(BitAnd(instruction, imm_target_reg_mask),
                           imm_target_reg_shift)),
          imm |-> Num(Uint16(Shr(BitAnd(instruction, immediate_val_mask),
                                 immediate_val_shift)))]
  ELSE [op |-> op,
        reg3 |-> Num(Shr(BitAnd(instruction, target_reg_mask), target_reg_shift)),
        imm |-> 0]

\* c.Locals[imm]: nil when the key is absent
Local(cs, imm) == IF imm \in DOMAIN cs.Locals THEN cs.Locals[imm] ELSE Nil

\* Execute with a default case that clears the decoded register
ExecuteDefaultNil(mm, cs, d) ==
  IF d.op = LOAD
    THEN [m |-> [mm EXCEPT !.Register[d.reg3] = Local(cs, d.imm)], s |-> cs]
  ELSE IF d.op = BIND
    THEN [m |-> mm, s |-> [cs EXCEPT !.Locals = MapPut(@, d.imm, mm.Register[d.reg3])]]
  ELSE [m |-> [mm EXCEPT !.Register[d.reg3] = Nil], s |-> cs]

\* Dispatch's execution stage: mm the machine, cs the stream after the fetch
Execute(mm, cs, d) ==
  IF d.op = LOAD
    THEN [m |-> [mm EXCEPT !.Register[d.reg3] = Local(cs, d.imm)], s |-> cs]
  ELSE IF d.op = BIND
    THEN [m |-> mm, s |-> [cs EXCEPT !.Locals = MapPut(@, d.imm, mm.Register[d.reg3])]]
  ELSE [m |-> mm, s |-> cs]

\* Dispatch after the fetch (f)
Dispatched(mm, f) ==
  Execute(mm, f.s,
          Decode(f.instruction, Num(BitAnd(f.instruction, instruction_mask))))

\* Machine.Dispatch: the machine (m) and the stream (s) after the call
Dispatch(mm, cs) == Dispatched(mm, Fetch(cs))

\* the *IntObject a client made: ref stands for the pointer
IntObject(ref, v) == [type |-> "int", Value |-> v, ref |-> ref]

(***************************************************************************)
(* SpecEncode: one instruction written with every register, predicate      *)
(* register and polarity into a stream that has interned some names.       *)
(***************************************************************************)
\* number of instructions written under SpecEncode
MaxWords == 1

\* the names the client uses
Names == {"a", "b"}

\* numbers of names interned before: first, last and middle ids, and the ids
\* next to a byte boundary
Others == {0, 1, Byte - 1, Byte, Word16 \div 2 - 1, Word16 \div 2, Word16 - 1}

Registers == 0..15

PredRegisters == 0..31

\* registers of the ALU instructions written under SpecEncode
AluRegisters == {0, 3, 4, 15}

InitEncode ==
  /\ InitSsa
  /\ InitNoObj
  /\ InitNoScan
  /\ InitNoInput
  /\ others \in Others
  /\ stream = InitCodeStream(others)
  /\ machine = InitMachine
  /\ lastOp = [op |-> "Init"]

\* the write calls the client made so far, oldest first
Code == IF lastOp.op = "Init" THEN <<>> ELSE lastOp.code

\* the call returns: cs is the stream after it
Called(cs, call) ==
  /\ stream' = cs
  /\ lastOp' = call
  /\ UNCHANGED <<machine, others>>
  /\ UNCHANGED nonCodeVars

DoName(name) ==
  Called(Name(stream, name).s,
         [op |-> "Name", name |-> name, ret |-> Name(stream, name).ret,
          strings |-> stream.Strings, code |-> Code])

DoBindLocal(name, o) ==
  Called(BindLocal(stream, name, o),
         [op |-> "BindLocal", name |-> name, ret |-> Name(stream, name).ret,
          strings |-> stream.Strings, code |-> Code])

DoWriteLoad(name, register, pred_bit, pred_reg, max) ==
  /\ Len(stream.Buffer) < 4 * max
  /\ lastOp.op # "Dispatch"
  /\ Called(WriteLoad(stream, name, register, pred_bit, pred_reg),
            [op |-> "WriteLoad", name |-> name, ret |-> Name(stream, name).ret,
             strings |-> stream.Strings,
             opcode |-> LOAD, register |-> register,
             pred_bit |-> pred_bit, pred_reg |-> pred_reg,
             code |-> Append(Code, <<"WriteLoad", name, register, pred_bit, pred_reg>>)])

DoWriteBind(name, register, pred_bit, pred_reg, max) ==
  /\ Len(stream.Buffer) < 4 * max
  /\ lastOp.op # "Dispatch"
  /\ Called(WriteBind(stream, name, register, pred_bit, pred_reg),
            [op |-> "WriteBind", name |-> name, ret |-> Name(stream, name).ret,
             strings |-> stream.Strings,
             opcode |-> BIND, register |-> register,
             pred_bit |-> pred_bit, pred_reg |-> pred_reg,
             code |-> Append(Code, <<"WriteBind", name, register, pred_bit, pred_reg>>)])

DoWriteAluIns(op, reg1, reg2, target, pred_bit, pred_reg, max) ==
  /\ Len(stream.Buffer) < 4 * max
  /\ lastOp.op # "Dispatch"
  /\ Called(WriteAluIns(stream, op, reg1, reg2, target, pred_bit, pred_reg),
            [op |-> "WriteAluIns", opcode |-> op, reg1 |-> reg1, reg2 |-> reg2,
             target |-> target, pred_bit |-> pred_bit, pred_reg |-> pred_reg,
             code |-> Append(Code, <<"WriteAluIns", op, reg1, reg2, target,
                                     pred_bit, pred_reg>>)])

\* the client stops after MaxWords instructions
NextEncode ==
  \/ /\ Len(stream.Buffer) < 4 * MaxWords
     /\ \E name \in Names, register \in Registers, pred_bit \in BOOLEAN,
           pred_reg \in PredRegisters :
           DoWriteLoad(name, register, pred_bit, pred_reg, MaxWords)
  \/ /\ Len(stream.Buffer) < 4 * MaxWords
     /\ \E name \in Names, register \in Registers, pred_bit \in BOOLEAN,
           pred_reg \in PredRegisters :
           DoWriteBind(name, register, pred_bit, pred_reg, MaxWords)
  \/ /\ Len(stream.Buffer) < 4 * MaxWords
     /\ \E reg1 \in AluRegisters, reg2 \in AluRegisters, target \in AluRegisters,
           pred_bit \in BOOLEAN, pred_reg \in PredRegisters :
           DoWriteAluIns(ADD, reg1, reg2, target, pred_bit, pred_reg, MaxWords)

SpecEncode == InitEncode /\ [][NextEncode]_vars


(***************************************************************************)
(* SpecNames: a client interns three names with Name, BindLocal, WriteLoad *)
(* and WriteBind, in a fresh stream and in one that has one id left        *)
(* before the uint16 counter wraps.                                        *)
(***************************************************************************)
\* number of instructions written under SpecNames
MaxNameWords == 2

NameOthers == {0, Word16 - 1}

ManyNames == {"a", "b", "c"}

InitNames ==
  /\ InitSsa
  /\ InitNoObj
  /\ InitNoScan
  /\ InitNoInput
  /\ others \in NameOthers
  /\ stream = InitCodeStream(others)
  /\ machine = InitMachine
  /\ lastOp = [op |-> "Init"]

NextNames ==
  \/ \E name \in ManyNames : DoName(name)
  \/ \E name \in ManyNames : DoBindLocal(name, Nil)
  \/ \E name \in ManyNames : DoWriteLoad(name, 3, FALSE, 0, MaxNameWords)
  \/ \E name \in ManyNames : DoWriteBind(name, 3, FALSE, 0, MaxNameWords)

SpecNames == InitNames /\ [][NextNames]_vars

(***************************************************************************)
(* SpecProgram: TestEncodeInstructions and TestDispatchInstructions.  The  *)
(* client may bind a to an int object, writes a program of LOAD, BIND and ADD *)
(* instructions and then dispatches it, one instruction per call.          *)
(***************************************************************************)
\* longest program written under SpecProgram
MaxProgram == 4

\* io1.Value
ProgValues == {10, 7}

LoadRegisters == {3, 4}

BindRegisters == {3, 5}

\* <<pred_bit, pred_reg>> of the instructions
ProgPreds == {<<FALSE, 0>>, <<FALSE, 1>>}

InitProgram ==
  /\ InitSsa
  /\ InitNoObj
  /\ InitNoScan
  /\ InitNoInput
  /\ others = 0
  /\ stream = InitCodeStream(others)
  /\ machine = InitMachine
  /\ lastOp = [op |-> "Init"]

\* s.BindLocal("a", io1), before any instruction is written
ProgBindLocal(v) ==
  /\ lastOp.op = "Init"
  /\ DoBindLocal("a", IntObject(1, v))

ProgWrite ==
  \/ \E name \in Names, register \in LoadRegisters, p \in ProgPreds :
       DoWriteLoad(name, register, p[1], p[2], MaxProgram)
  \/ \E register \in BindRegisters, p \in ProgPreds :
       DoWriteBind("b", register, p[1], p[2], MaxProgram)
  \/ \E p \in ProgPreds : DoWriteAluIns(ADD, 3, 4, 5, p[1], p[2], MaxProgram)

\* m.Dispatch(s): d is what Dispatch gives; lastOp keeps the machine (m) and
\* the stream (s) before the call
Dispatching(d) ==
  /\ machine' = d.m
  /\ stream' = d.s
  /\ lastOp' = [op |-> "Dispatch", m |-> machine, s |-> stream, code |-> Code]
  /\ UNCHANGED others
  /\ UNCHANGED nonCodeVars

DoDispatch ==
  /\ Len(stream.Buffer) > 0
  /\ Dispatching(Dispatch(machine, stream))

NextProgram ==
  \/ \E v \in ProgValues : ProgBindLocal(v)
  \/ ProgWrite
  \/ DoDispatch

SpecProgram == InitProgram /\ [][NextProgram]_vars

(***************************************************************************)
(* Properties of the encoder and the machine                               *)
(***************************************************************************)
\* the instruction word the client's last write appended to the stream
LastWord == FromLittleEndian(SubSeq(stream.Buffer, Len(stream.Buffer) - 3,
                                    Len(stream.Buffer)))

\* the last call wrote an immediate-format instruction
WroteImm == lastOp.op \in {"WriteLoad", "WriteBind"}

\* the fields of word w, taken with Dispatch's masks and shifts
DecodedOp(w) == Num(BitAnd(w, instruction_mask))

DecodedPredBit(w) == Num(Shr(BitAnd(w, pred_execute_mask), pred_execute_shift)) = 1

DecodedPredReg(w) == Num(Shr(BitAnd(w, pred_reg_mask), pred_reg_shift))

\* C12: decoding the word written by WriteLoad or WriteBind with the masks and
\* shifts of Dispatch gives back the opcode, the name id, the register, the
\* predicate polarity and the predicate register of the call.
C12_RoundTrip ==
  WroteImm =>
    /\ DecodedOp(LastWord) = lastOp.opcode
    /\ Decode(LastWord, DecodedOp(LastWord)) =
         [op |-> lastOp.opcode, reg3 |-> lastOp.register, imm |-> lastOp.ret]
    /\ DecodedPredBit(LastWord) = lastOp.pred_bit
    /\ DecodedPredReg(LastWord) = lastOp.pred_reg

\* a BIND of the last name id, with the last register, the last predicate
\* register and polarity 1, was written and decoded
C12_Witness ==
  /\ lastOp.op = "WriteBind"
  /\ lastOp.ret = Word16 - 1
  /\ lastOp.register = 15
  /\ lastOp.pred_bit
  /\ lastOp.pred_reg = 31
  /\ Decode(LastWord, DecodedOp(LastWord)) = [op |-> BIND, reg3 |-> 15, imm |-> Word16 - 1]

\* the last call interned a name or looked one up
Named == lastOp.op \in {"Name", "BindLocal", "WriteLoad", "WriteBind"}

\* C13: in every stream, also one that has interned 65535 names before, the
\* call returns the id the table holds for the name, every name keeps the id
\* it had before the call, a name seen for the first time gets the number of
\* the names seen before it, and no two names share an id.
C13_Interning ==
  Named =>
    /\ lastOp.ret = stream.Strings[lastOp.name]
    /\ \A n \in DOMAIN lastOp.strings : stream.Strings[n] = lastOp.strings[n]
    /\ lastOp.name \notin DOMAIN lastOp.strings =>
         lastOp.ret = others + Cardinality(DOMAIN lastOp.strings)
    /\ \A n \in DOMAIN stream.Strings :
         /\ stream.Strings[n] \notin 0..(others - 1)
         /\ \A n2 \in DOMAIN stream.Strings \ {n} :
              stream.Strings[n] # stream.Strings[n2]

\* bits lo..hi of word w, as a number
Field(w, lo, hi) == Num(Shr(w \cap lo..hi, lo))

\* the golden vector of TestEncodeInstructions: 0x00003010, 0x00015091, 0x00543026
sample_instructions == <<12304, 86161, 5517350>>

\* the three writes of TestEncodeInstructions
SampleCode ==
  <<(<<"WriteLoad", "a", 3, FALSE, 0>>), (<<"WriteBind", "b", 5, FALSE, 1>>),
    (<<"WriteAluIns", ADD, 3, 4, 5, FALSE, 0>>)>>

\* the client wrote SampleCode into a fresh stream
WroteSample == Code = SampleCode /\ lastOp.op = "WriteAluIns" /\ stream.Locals = <<>>

\* C11: the word of WriteLoad and WriteBind holds the opcode in bits 0-5, the
\* polarity in bit 6, the predicate register in bits 7-11, the target register
\* in bits 12-15 and the name id in bits 16-31; the word of the ALU writer
\* holds source register 1 in bits 12-15, source register 2 in bits 16-19 and
\* the target register in bits 20-23; the three writes of
\* TestEncodeInstructions on a fresh stream give the bytes of 0x00003010,
\* 0x00015091, 0x00543026, in that order.
C11_Layout ==
  /\ WroteImm =>
       /\ Field(LastWord, 0, 5) = lastOp.opcode
       /\ (6 \in LastWord) = lastOp.pred_bit
       /\ Field(LastWord, 7, 11) = lastOp.pred_reg
       /\ Field(LastWord, 12, 15) = lastOp.register
       /\ Field(LastWord, 16, 31) = lastOp.ret
  /\ lastOp.op = "WriteAluIns" =>
       /\ Field(LastWord, 12, 15) = lastOp.reg1
       /\ Field(LastWord, 16, 19) = lastOp.reg2
       /\ Field(LastWord, 20, 23) = lastOp.target
  /\ WroteSample =>
       /\ Len(stream.Buffer) = 12
       /\ \A i \in 1..3 :
            FromLittleEndian(SubSeq(stream.Buffer, 4 * i - 3, 4 * i)) =
              Bits(sample_instructions[i])

\* TestEncodeInstructions has written its three instructions
C11_Witness ==
  /\ WroteSample
  /\ stream.Buffer = <<16, 48, 0, 0, 145, 80, 1, 0, 38, 48, 84, 0>>

\* the four writes of TestDispatchInstructions up to the ADD
DispatchCode ==
  <<(<<"WriteLoad", "a", 3, FALSE, 0>>), (<<"WriteBind", "b", 3, FALSE, 0>>),
    (<<"WriteLoad", "b", 4, FALSE, 0>>), (<<"WriteAluIns", ADD, 3, 4, 5, FALSE, 0>>)>>

\* the client bound a, wrote DispatchCode and dispatched all of it
RanDispatchCode ==
  /\ lastOp.op = "Dispatch"
  /\ lastOp.code = DispatchCode
  /\ stream.Buffer = <<>>
  /\ "a" \in DOMAIN stream.Strings
  /\ stream.Strings["a"] \in DOMAIN stream.Locals

\* C14: with a bound to an int object of value v, after LOAD a->r3; BIND b<-r3;
\* LOAD b->r4; ADD r3,r4->r5 were dispatched, R[3] and R[4] hold the object
\* bound to a and R[5] holds an int object of value 2v.
C14_DispatchAdd ==
  RanDispatchCode =>
    /\ machine.Register[3] = stream.Locals[stream.Strings["a"]]
    /\ machine.Register[4] = stream.Locals[stream.Strings["a"]]
    /\ machine.Register[5].type = "int"
    /\ machine.Register[5].Value = 2 * stream.Locals[stream.Strings["a"]].Value

\* the instruction of the last Dispatch, and the stream and machine before it
Dispatched0 == FromLittleEndian(SubSeq(lastOp.s.Buffer, 1, 4))

\* the last Dispatch had to execute its instruction: its predicate register is
\* 0, or Pred[p] was true for polarity 0, false for polarity 1
Enabled0 ==
  \/ DecodedPredReg(Dispatched0) = 0
  \/ lastOp.m.Pred[DecodedPredReg(Dispatched0)] = ~DecodedPredBit(Dispatched0)

Decoded0 == Decode(Dispatched0, DecodedOp(Dispatched0))

\* C15: Dispatch consumes the 4 bytes of the instruction; an instruction whose
\* predicate inhibits it leaves the registers, the predicate bits, the locals
\* and the globals as they were; one whose predicate register is 0, or whose
\* predicate holds, executes (LOAD sets the register, BIND sets the local).
C15_Predication ==
  lastOp.op = "Dispatch" =>
    /\ stream.Buffer = SubSeq(lastOp.s.Buffer, 5, Len(lastOp.s.Buffer))
    /\ ~Enabled0 =>
         /\ machine = lastOp.m
         /\ stream.Locals = lastOp.s.Locals
         /\ stream.Globals = lastOp.s.Globals
    /\ Enabled0 /\ Decoded0.op = LOAD =>
         machine.Register[Decoded0.reg3] = Local(lastOp.s, Decoded0.imm)
    /\ Enabled0 /\ Decoded0.op = BIND =>
         /\ Decoded0.imm \in DOMAIN stream.Locals
         /\ stream.Locals[Decoded0.imm] = lastOp.m.Register[Decoded0.reg3]

(***************************************************************************)
(* The boxed objects: IntObject, FloatObject and StringObject.  An int is  *)
(* a big.Int.  A float64 is the fraction n/d in lowest terms with d > 0,   *)
(* or d = 0 for +Inf (n = 1), -Inf (n = -1) and NaN (n = 0); a quotient    *)
(* that float64 rounds is kept exact.  A string is the sequence of its     *)
(* characters.                                                             *)
(***************************************************************************)
Abs(x) == IF x < 0 THEN -x ELSE x

Sign(x) == IF x < 0 THEN -1 ELSE IF x = 0 THEN 0 ELSE 1

RECURSIVE Gcd(_, _)
Gcd(a, b) == IF b = 0 THEN a ELSE Gcd(b, a % b)

\* n/d with the common divisor g taken out
Reduced(n, d, g) == [n |-> (Sign(d) * n) \div g, d |-> Abs(d) \div g]

\* the float64 n/d
Rat(n, d) ==
  IF d = 0 THEN [n |-> Sign(n), d |-> 0] ELSE Reduced(n, d, Gcd(Abs(n), Abs(d)))

\* a + b, a - b, a * b, a / b on finite float64
FAdd(a, b) == Rat(a.n * b.d + b.n * a.d, a.d * b.d)

FSub(a, b) == Rat(a.n * b.d - b.n * a.d, a.d * b.d)

FMul(a, b) == Rat(a.n * b.n, a.d * b.d)

FDiv(a, b) == Rat(a.n * b.d, a.d * b.n)

\* int64(f) of a finite float64: the fraction is dropped
Trunc(f) == IF f.n >= 0 THEN f.n \div f.d ELSE -((-f.n) \div f.d)

\* int64(f) of an infinity or a NaN is left to the implementation
UnspecifiedInts == {-(2 ^ 30), 0, 2 ^ 30}

\* big.Int.Div and big.Int.Mod: Euclidean division, y # 0
EuclidDiv(x, y) == IF y > 0 THEN x \div y ELSE -(x \div (-y))

EuclidMod(x, y) == x % Abs(y)

DigitChars == <<"0", "1", "2", "3", "4", "5", "6", "7", "8", "9">>

\* the decimal digits of n >= 0
RECURSIVE Digits(_)
Digits(n) ==
  IF n < 10 THEN <<DigitChars[n + 1]>>
  ELSE Append(Digits(n \div 10), DigitChars[(n % 10) + 1])

\* big.Int.String
IntString(v) == IF v < 0 THEN <<"-">> \o Digits(-v) ELSE Digits(v)

\* fmt.Sprint of a float64 that is a whole number or a whole number and a half
FloatString(f) ==
  (IF f.n < 0 THEN <<"-">> ELSE <<>>) \o Digits(Abs(f.n) \div f.d)
    \o (IF f.d = 2 THEN <<".", "5">> ELSE <<>>)

\* the number a sequence of decimal digits spells
RECURSIVE DecimalValue(_)
DecimalValue(str) ==
  IF str = <<>> THEN 0
  ELSE 10 * DecimalValue(SubSeq(str, 1, Len(str) - 1))
       + (CHOOSE k \in 0..9 : DigitChars[k + 1] = str[Len(str)])

IsDecimal(str) ==
  /\ str # <<>>
  /\ \A i \in 1..Len(str) : \E k \in 1..10 : DigitChars[k] = str[i]
  /\ Len(str) > 1 => str[1] # "0"

\* what value holds after value.SetString(str, 0) failed
UndefinedInts == {-1, 0, 5}

\* big.Int.SetString(str, 0) of a string with no sign and no base prefix: the
\* values the big.Int may hold afterwards
SetString(str) == IF IsDecimal(str) THEN {DecimalValue(str)} ELSE UndefinedInts

IntOf(v) == [type |-> "int", Value |-> v]

FloatOf(f) == [type |-> "float", Value |-> f]

NewString(value) == [type |-> "string", Value |-> value]

\* the call does not return: big.Int panics with "division by zero"
Panic == [type |-> "panic", Value |-> "division by zero"]

\* r.AsInt(), r.AsFloat() and r.AsString(), for each way the conversions of r
\* can come out
Conversions(r) ==
  IF r.type = "int"
    THEN {[int |-> r.Value, float |-> Rat(r.Value, 1), string |-> IntString(r.Value)]}
  ELSE IF r.type = "float"
    THEN {[int |-> Trunc(r.Value), float |-> r.Value, string |-> FloatString(r.Value)]}
  ELSE {[int |-> i, float |-> Rat(0, 1), string |-> r.Value] : i \in SetString(r.Value)}

\* IntObject's methods: o the receiver, c the conversions of the operand
IntAdd(o, c) == {IntOf(o.Value + c.int)}

IntSub(o, c) == {IntOf(o.Value - c.int)}

IntMul(o, c) == {IntOf(o.Value * c.int)}

\* IntObject.Div with an int result
IntDivTruncated(o, c) == {IntOf(Trunc(Rat(o.Value, 1)))}

IntDiv(o, c) == {FloatOf(FDiv(Rat(o.Value, 1), c.float))}

IntFloorDiv(o, c) == IF c.int = 0 THEN {Panic} ELSE {IntOf(EuclidDiv(o.Value, c.int))}

IntMod(o, c) == IF c.int = 0 THEN {Panic} ELSE {IntOf(EuclidMod(o.Value, c.int))}

\* FloatObject's methods
FloatAdd(o, c) == {FloatOf(FAdd(o.Value, c.float))}

FloatSub(o, c) == {FloatOf(FSub(o.Value, c.float))}

FloatMul(o, c) == {FloatOf(FMul(o.Value, c.float))}

FloatDiv(o, c) == {FloatOf(FDiv(o.Value, c.float))}

\* int64(q) of the quotient q
FloatFloor(q) == IF q.d = 0 THEN {IntOf(v) : v \in UnspecifiedInts} ELSE {IntOf(Trunc(q))}

FloatFloorDiv(o, c) == FloatFloor(FDiv(o.Value, c.float))

FloatMod(o, c) == {FloatOf(Rat(0, 1))}

\* StringObject's methods
StringAdd(o, c) == {NewString(o.Value \o c.string)}

StringSub(o, c) == {NewString(<<>>)}

\* the loop of StringObject.Mul
RECURSIVE Repeat(_, _)
Repeat(value, reps) == IF reps <= 0 THEN <<>> ELSE Repeat(value, reps - 1) \o value

\* StringObject.Mul that gives the receiver once
StringMulOnce(o, c) == {NewString(o.Value)}

StringMul(o, c) == {NewString(Repeat(o.Value, c.int))}

StringDiv(o, c) == {NewString(<<>>)}

StringFloorDiv(o, c) == {NewString(<<>>)}

StringMod(o, c) == {NewString(o.Value)}

Ops == {"Add", "Sub", "Mul", "Div", "FloorDiv", "Mod"}

\* o.op(r) by the dynamic type of o: the objects the call can return
Arith(op, o, c) ==
  CASE o.type = "int" /\ op = "Add" -> IntAdd(o, c)
    [] o.type = "int" /\ op = "Sub" -> IntSub(o, c)
    [] o.type = "int" /\ op = "Mul" -> IntMul(o, c)
    [] o.type = "int" /\ op = "Div" -> IntDiv(o, c)
    [] o.type = "int" /\ op = "FloorDiv" -> IntFloorDiv(o, c)
    [] o.type = "int" /\ op = "Mod" -> IntMod(o, c)
    [] o.type = "float" /\ op = "Add" -> FloatAdd(o, c)
    [] o.type = "float" /\ op = "Sub" -> FloatSub(o, c)
    [] o.type = "float" /\ op = "Mul" -> FloatMul(o, c)
    [] o.type = "float" /\ op = "Div" -> FloatDiv(o, c)
    [] o.type = "float" /\ op = "FloorDiv" -> FloatFloorDiv(o, c)
    [] o.type = "float" /\ op = "Mod" -> FloatMod(o, c)
    [] o.type = "string" /\ op = "Add" -> StringAdd(o, c)
    [] o.type = "string" /\ op = "Sub" -> StringSub(o, c)
    [] o.type = "string" /\ op = "Mul" -> StringMul(o, c)
    [] o.type = "string" /\ op = "Div" -> StringDiv(o, c)
    [] o.type = "string" /\ op = "FloorDiv" -> StringFloorDiv(o, c)
    [] o.type = "string" /\ op = "Mod" -> StringMod(o, c)

(***************************************************************************)
(* SpecArith: one arithmetic method called on one pair of objects.         *)
(***************************************************************************)
\* the int objects hold -MaxInt..MaxInt
MaxInt == 3

\* the float objects hold the halves from -MaxHalves/2 to MaxHalves/2
MaxHalves == 4

\* the string objects: "", "2", "12", "ab"
StringValues == {<<>>, <<"2">>, <<"1", "2">>, <<"a", "b">>}

Objects ==
  {IntOf(v) : v \in -MaxInt..MaxInt}
    \cup {FloatOf(Rat(h, 2)) : h \in -MaxHalves..MaxHalves}
    \cup {NewString(value) : value \in StringValues}

InitArith ==
  /\ InitSsa
  /\ InitNoCode
  /\ InitNoScan
  /\ InitNoInput
  /\ receiver \in Objects
  /\ operand \in Objects
  /\ arith = [op |-> "Init"]

\* result := receiver.op(operand)
DoArith(op) ==
  /\ arith.op = "Init"
  /\ \E c \in Conversions(operand) :
       \E result \in Arith(op, receiver, c) :
         arith' = [op |-> op, c |-> c, result |-> result]
  /\ UNCHANGED <<receiver, operand>>
  /\ UNCHANGED nonObjVars

NextArith == \E op \in Ops : DoArith(op)

SpecArith == InitArith /\ [][NextArith]_vars

(***************************************************************************)
(* Properties of the boxed objects                                         *)
(***************************************************************************)
\* an arithmetic method was called and returned an object
ArithReturned == arith.op # "Init" /\ arith.result.type # "panic"

\* C16: of an int receiver, Add, Sub, Mul, Mod and FloorDiv return an int
\* object and Div returns a float object; of a float receiver, Add, Sub, Mul,
\* Div and Mod return a float object and FloorDiv returns an int object; Mod
\* of a float receiver returns the float 0 whatever the operand.
C16_ResultVariant ==
  ArithReturned =>
    /\ receiver.type = "int" /\ arith.op \in {"Add", "Sub", "Mul", "Mod", "FloorDiv"} =>
         arith.result.type = "int"
    /\ receiver.type = "int" /\ arith.op = "Div" => arith.result.type = "float"
    /\ receiver.type = "float" /\ arith.op \in {"Add", "Sub", "Mul", "Div", "Mod"} =>
         arith.result.type = "float"
    /\ receiver.type = "float" /\ arith.op = "FloorDiv" => arith.result.type = "int"
    /\ receiver.type = "float" /\ arith.op = "Mod" => arith.result = FloatOf([n |-> 0, d |-> 1])

\* 3 / 2 gave the float 1.5
C16_Witness ==
  /\ receiver = IntOf(3)
  /\ operand = IntOf(2)
  /\ arith.op = "Div"
  /\ arith.result = FloatOf([n |-> 3, d |-> 2])

\* an arithmetic method of a string receiver returned
StringReturned == ArithReturned /\ receiver.type = "string"

\* the result is the string value
Gave(value) == arith.result = NewString(value)

\* the result is the receiver n times over
IsRepeated(n) ==
  /\ arith.result.type = "string"
  /\ Len(arith.result.Value) = (IF n <= 0 THEN 0 ELSE n * Len(receiver.Value))
  /\ \A i \in 1..Len(arith.result.Value) :
       arith.result.Value[i] = receiver.Value[((i - 1) % Len(receiver.Value)) + 1]

\* Add and Mul of a string receiver, as C17 states them
StringAddMul ==
  /\ arith.op = "Add" => Gave(receiver.Value \o arith.c.string)
  /\ arith.op = "Add" /\ operand.type = "string" => Gave(receiver.Value \o operand.Value)
  /\ arith.op = "Mul" /\ operand.type = "int" => IsRepeated(operand.Value)

\* C17 as stated: Add of a string receiver returns the receiver followed by
\* the operand's string form, Mul by an integer n the receiver n times (the
\* empty string for n <= 0), and Sub, Div, FloorDiv and Mod the empty string.
C17_StringArith ==
  StringReturned =>
    /\ StringAddMul
    /\ arith.op \in {"Sub", "Div", "FloorDiv", "Mod"} => Gave(<<>>)

\* C17 amended: as above for Add, Mul, Sub, Div and FloorDiv; Mod returns a
\* string equal to the receiver.
C17_StringArithModReceiver ==
  StringReturned =>
    /\ StringAddMul
    /\ arith.op \in {"Sub", "Div", "FloorDiv"} => Gave(<<>>)
    /\ arith.op = "Mod" => Gave(receiver.Value)

\* "ab" % 2 gave "ab"
C17_Witness ==
  /\ receiver = NewString(<<"a", "b">>)
  /\ operand = IntOf(2)
  /\ arith.op = "Mod"
  /\ Gave(<<"a", "b">>)

(***************************************************************************)
(* The scanner (scanner.go).  Characters are one-character strings, the    *)
(* token values are their names, and a token that is a character is that   *)
(* character.  The sources have no quote, no backslash, no carriage return *)
(* and no letter r or u, so the string and line-joining cases of Scan are  *)
(* not entered.                                                            *)
(***************************************************************************)
\* len(s.indentStack)
IndentStackLen == 1024

Letters == {"a", "b", "f", "x", "B", "X"}

BinDigits == {"0", "1"}

OctDigits == {"0", "1", "2", "3", "4", "5", "6", "7"}

DecDigits == OctDigits \cup {"8", "9"}

HexDigits == DecDigits \cup {"A", "a", "B", "b", "C", "c", "D", "d", "E", "e", "F", "f"}

\* what scanIdentifier steps over
IdentChars == Letters \cup DecDigits \cup {"_"}

Blanks == {" ", "\t"}

\* s.ch
Ch(sc) == IF sc.pos <= Len(sc.src) THEN sc.src[sc.pos] ELSE "EOF"

\* s.next(): the scanner after it; the character it returns is then Ch
NextCh(sc) == IF sc.pos <= Len(sc.src) THEN [sc EXCEPT !.pos = @ + 1] ELSE sc

\* "for is...(ch) { ch = s.next() }"
RECURSIVE SkipWhile(_, _)
SkipWhile(sc, chars) == IF Ch(sc) \in chars THEN SkipWhile(NextCh(sc), chars) ELSE sc

\* scanNumber after the "ch = s.next()" that follows a first digit 0
ScanAfterZero(sc) ==
  IF Ch(sc) \in {"x", "X"} THEN SkipWhile(NextCh(sc), HexDigits)
  ELSE IF Ch(sc) \in {"b", "B"} THEN SkipWhile(NextCh(sc), BinDigits)
  ELSE SkipWhile(NextCh(sc), OctDigits)

\* Scanner.scanNumber: sc has the first digit as its look-ahead
scanNumber(sc) ==
  IF Ch(sc) = "0" THEN ScanAfterZero(NextCh(sc)) ELSE SkipWhile(sc, DecDigits)

\* the loop with a tab that rounds the width up to a multiple of 8
RECURSIVE MeasureIndentRoundUp(_, _)
MeasureIndentRoundUp(sc, indent_length) ==
  IF Ch(sc) = " " THEN MeasureIndentRoundUp(NextCh(sc), indent_length + 1)
  ELSE IF Ch(sc) = "\t" THEN MeasureIndentRoundUp(NextCh(sc), ((indent_length + 7) \div 8) * 8)
  ELSE [s |-> sc, n |-> indent_length]

\* the loop that measures the indent: the scanner after it (s) and indent_length (n)
RECURSIVE MeasureIndent(_, _)
MeasureIndent(sc, indent_length) ==
  IF Ch(sc) = " " THEN MeasureIndent(NextCh(sc), indent_length + 1)
  ELSE IF Ch(sc) = "\t" THEN MeasureIndent(NextCh(sc), ((indent_length \div 8) + 1) * 8)
  ELSE [s |-> sc, n |-> indent_length]

\* s.indentStack[s.indentPos]
Top(sc) == sc.indentStack[sc.indentPos + 1]

\* "s.indentPos++; s.indentStack[s.indentPos] = indent_length"
Push(sc, indent_length) ==
  [sc EXCEPT !.indentPos = @ + 1, !.indentStack = Append(@, indent_length)]

\* the end of Scan: token tok, whose text began at tokPos, is returned
Finish(sc, tokPos, tok) ==
  [s |-> [sc EXCEPT !.tokPos = tokPos, !.tokEnd = sc.pos - 1,
                    !.isNewline = (tok = "EOL")],
   tok |-> tok]

\* Scan from the label redo
RECURSIVE Redo(_)

\* the indent case of Scan after the measuring loop (m); both the Indent and
\* the Dedent branch increment indentPos, which panics past the last slot
IndentToken(m, tokPos) ==
  IF m.n = Top(m.s) THEN Redo(m.s)
  ELSE IF m.s.indentPos + 1 >= IndentStackLen
    THEN [s |-> m.s, tok |-> "panic: index out of range"]
  ELSE Finish(Push(m.s, m.n), tokPos, IF m.n > Top(m.s) THEN "Indent" ELSE "Dedent")

\* Scan from "start collecting token text"
Token(sc) ==
  IF Ch(sc) \in Letters \cup {"_"}
    THEN Finish(SkipWhile(sc, IdentChars), sc.pos, "Identifier")
  ELSE IF Ch(sc) \in DecDigits THEN Finish(scanNumber(sc), sc.pos, "Integer")
  ELSE IF Ch(sc) = "\n" THEN Finish(NextCh(sc), sc.pos, "EOL")
  ELSE IF Ch(sc) \in Blanks THEN IndentToken(MeasureIndent(sc, 0), sc.pos)
  ELSE Finish(NextCh(sc), sc.pos, Ch(sc))

Redo(sc) == Token(IF sc.isNewline THEN sc ELSE SkipWhile(sc, Blanks))

\* Scanner.Scan: the scanner after the call (s) and the token returned (tok)
Scan(sc) == Redo(sc)

\* Scanner.TokenText
TokenText(sc) == IF sc.tokPos < 0 THEN <<>> ELSE SubSeq(sc.src, sc.tokPos, sc.tokEnd)

(***************************************************************************)
(* SpecScan: a source of up to MaxLines lines, each an indentation, then   *)
(* an integer literal, an identifier or nothing, then a newline, is        *)
(* scanned to its end.                                                     *)
(***************************************************************************)
MaxLines == 3

Indents == {<<>>, <<" ">>, <<" ", " ">>, <<"\t">>}

\* 0, 07, 0xf, 0b1 and 19
Literals == {<<"0">>, <<"0", "7">>, <<"0", "x", "f">>, <<"0", "b", "1">>, <<"1", "9">>}

Contents == Literals \cup {<<"a">>, <<>>}

Lines == {indent \o content \o <<"\n">> : indent \in Indents, content \in Contents}

RECURSIVE SourcesOf(_)
SourcesOf(n) ==
  IF n = 0 THEN {<<>>} ELSE {line \o rest : line \in Lines, rest \in SourcesOf(n - 1)}

Sources == UNION {SourcesOf(n) : n \in 1..MaxLines}

InitScan ==
  /\ InitSsa
  /\ InitNoCode
  /\ InitNoObj
  /\ InitNoInput
  /\ \E src \in Sources : scanner = InitScanner(src)
  /\ lastScan = [op |-> "Init", tok |-> "Init"]

\* the call returns r
Scanned(r) ==
  /\ scanner' = r.s
  /\ lastScan' = [op |-> "Scan", tok |-> r.tok, text |-> TokenText(r.s), s |-> scanner,
                  prev |-> [tok |-> lastScan.tok, tokPos |-> scanner.tokPos]]
  /\ UNCHANGED nonScanVars

\* tok := s.Scan(), until the end of the source
DoScan ==
  /\ lastScan.tok \notin {"EOF", "panic: index out of range"}
  /\ Scanned(Scan(scanner))

NextScan == DoScan

SpecScan == InitScan /\ [][NextScan]_vars

(***************************************************************************)
(* Properties of the scanner                                               *)
(***************************************************************************)
\* the literal lit stands at place p of the source, after the start of the
\* line or its indentation, and a newline follows it
LitAt(src, p, lit) ==
  /\ p >= 1
  /\ p + Len(lit) <= Len(src)
  /\ SubSeq(src, p, p + Len(lit) - 1) = lit
  /\ src[p + Len(lit)] = "\n"
  /\ p = 1 \/ src[p - 1] \in {"\n", " ", "\t"}

\* C18 for the literal lit: the Scan that starts at the literal returns Integer
\* with the literal as its text, and the Scan after it returns EOL
IntegerScanned(lit) ==
  /\ LitAt(scanner.src, scanner.tokPos, lit) =>
       lastScan.tok = "Integer" /\ lastScan.text = lit
  /\ LitAt(scanner.src, lastScan.prev.tokPos, lit) /\ lastScan.prev.tok = "Integer" =>
       lastScan.tok = "EOL"

\* C18: for the literals 0b1, 0xf, 07, 0 and 19, each followed by a newline,
\* Scan returns Integer, TokenText is the literal, and the next Scan returns
\* EOL.
C18_IntegerLiterals ==
  lastScan.op = "Scan" => \A lit \in Literals : IntegerScanned(lit)

\* the last Scan was called at the start of a line that is not blank
LineStartCall ==
  /\ lastScan.op = "Scan"
  /\ lastScan.s.isNewline
  /\ Ch(MeasureIndent(lastScan.s, 0).s) \notin {"\n", "EOF"}

\* the indentation width of the line the last Scan started
LineWidth == MeasureIndent(lastScan.s, 0).n

StrictlyIncreasing(stack) == \A i \in 1..(Len(stack) - 1) : stack[i] < stack[i + 1]

\* C19: the Scan at the start of a line returns Indent and pushes the width
\* when the width exceeds the top of the indent stack, returns Dedent and pops
\* one level when it is smaller, and returns neither when they are equal; the
\* indent stack is strictly increasing from bottom to top.
C19_IndentDedent ==
  /\ StrictlyIncreasing(scanner.indentStack)
  /\ LineStartCall =>
       /\ LineWidth > Top(lastScan.s) =>
            /\ lastScan.tok = "Indent"
            /\ scanner.indentStack = Append(lastScan.s.indentStack, LineWidth)
       /\ LineWidth < Top(lastScan.s) =>
            /\ lastScan.tok = "Dedent"
            /\ scanner.indentStack = Front(lastScan.s.indentStack)
       /\ LineWidth = Top(lastScan.s) =>
            /\ lastScan.tok \notin {"Indent", "Dedent"}
            /\ scanner.indentStack = lastScan.s.indentStack

\* C20: after the Scan at the start of a line that is not blank,
\* indentStack[indentPos] is the indentation width of that line.
C20_TopIsLineWidth == LineStartCall => Top(scanner) = LineWidth

(***************************************************************************)
(* The parser's input stream (stream.go).  A context is its data, the      *)
(* place at of the character read last (counted from 0, -1 before the      *)
(* first), its row and its col; characters are one-character strings, the  *)
(* character 0 is NoChar, and the errors are "nil" and "EOF".              *)
(***************************************************************************)
NoChar == "0x00"

\* newStreamContext(data, name)
newStreamContext(data) == [data |-> data, at |-> -1, row |-> 1, col |-> 1]

\* splitStreamContext with the partition one character late
splitStreamContextLate(c) ==
  IF c.at + 2 >= Len(c.data)
    THEN [left |-> c, right |-> <<>>]
    ELSE [left |-> [c EXCEPT !.data = SubSeq(c.data, 1, c.at + 2)],
          right |-> <<[data |-> SubSeq(c.data, c.at + 3, Len(c.data)), at |-> -1,
                       row |-> c.row, col |-> c.col]>>]

\* splitStreamContext(c): the context passed in afterwards (left) and the
\* contexts returned (right): none for nil
splitStreamContext(c) ==
  IF c.at + 1 >= Len(c.data)
    THEN [left |-> c, right |-> <<>>]
    ELSE [left |-> [c EXCEPT !.data = SubSeq(c.data, 1, c.at + 1)],
          right |-> <<[data |-> SubSeq(c.data, c.at + 2, Len(c.data)), at |-> -1,
                       row |-> c.row, col |-> c.col]>>]

\* the list with the element at cur replaced by left and the elements of
\* after inserted behind it
InsertAfter(streams, cur, left, after) ==
  SubSeq(streams, 1, cur - 1) \o <<left>> \o after
    \o SubSeq(streams, cur + 1, Len(streams))

\* MergeFromString when there is a current context, split as split tells
MergeSplit(s, data, split) ==
  [s EXCEPT !.streams =
     InsertAfter(@, s.cur, split.left, <<newStreamContext(data)>> \o split.right)]

\* Stream.MergeFromString(data, name)
MergeFromString(s, data) ==
  IF Len(data) = 0 THEN s
  ELSE IF s.cur = 0
    THEN [streams |-> <<newStreamContext(data)>> \o s.streams, cur |-> 1]
  ELSE IF s.streams[s.cur].at >= Len(s.streams[s.cur].data)
    THEN [s EXCEPT !.streams =
            InsertAfter(@, s.cur, s.streams[s.cur], <<newStreamContext(data)>>)]
  ELSE MergeSplit(s, data, splitStreamContext(s.streams[s.cur]))

\* Stream.Peek: what it returns; it panics when it indexes an empty data
Peek(s) ==
  IF s.cur = 0 THEN [ch |-> NoChar, err |-> "EOF"]
  ELSE IF s.streams[s.cur].at + 1 >= Len(s.streams[s.cur].data)
    THEN IF s.cur = Len(s.streams) THEN [ch |-> NoChar, err |-> "EOF"]
         ELSE IF Len(s.streams[s.cur].data) = 0
           THEN [ch |-> NoChar, err |-> "panic: index out of range"]
         ELSE [ch |-> s.streams[s.cur].data[1], err |-> "nil"]
  ELSE [ch |-> s.streams[s.cur].data[s.streams[s.cur].at + 2], err |-> "nil"]

\* the end of Read: the character at c.at of context c is returned
ReadChar(c) ==
  IF c.data[c.at + 1] = "\n" THEN [c EXCEPT !.row = @ + 1, !.col = 1]
  ELSE [c EXCEPT !.col = @ + 1]

\* Read after "ctx.at+=1" (s), in the current context
ReadAt(s) ==
  IF s.streams[s.cur].at >= Len(s.streams[s.cur].data)
    THEN IF s.cur = Len(s.streams)
           THEN [s |-> s, ch |-> NoChar, err |-> "EOF"]
           ELSE [s |-> [s EXCEPT !.cur = @ + 1,
                                 !.streams[s.cur + 1] =
                                    ReadChar([@ EXCEPT !.at = @ + 1])],
                 ch |-> s.streams[s.cur + 1].data[s.streams[s.cur + 1].at + 2],
                 err |-> "nil"]
    ELSE [s |-> [s EXCEPT !.streams[s.cur] = ReadChar(@)],
          ch |-> s.streams[s.cur].data[s.streams[s.cur].at + 1], err |-> "nil"]

\* Stream.Read: the Stream after it (s) and what it returns (ch, err)
Read(s) ==
  IF s.cur = 0 THEN [s |-> s, ch |-> NoChar, err |-> "EOF"]
  ELSE ReadAt([s EXCEPT !.streams[s.cur].at = @ + 1])

(***************************************************************************)
(* SpecStream: a client merges strings into a new Stream, reads and peeks. *)
(***************************************************************************)
\* number of MergeFromString calls with data
MaxMerges == 3

\* number of Reads that return EOF in a row
MaxEofReads == 2

\* the strings merged: "", "a\nb", "mn", "x"
MergeData == {<<>>, <<"a", "\n", "b">>, <<"m", "n">>, <<"x">>}

InitStream ==
  /\ InitSsa
  /\ InitNoCode
  /\ InitNoObj
  /\ InitNoScan
  /\ input = newStream
  /\ lastIo = [op |-> "Init", merges |-> 0, rest |-> <<>>]

\* Peek panicked: the client is gone
Crashed == lastIo.op = "Peek" /\ lastIo.err = "panic: index out of range"

\* s.MergeFromString(data, name)
DoMerge(data) ==
  /\ ~Crashed
  /\ lastIo.merges < MaxMerges
  /\ input' = MergeFromString(input, data)
  /\ lastIo' = [op |-> "Merge", data |-> data, s |-> input,
                merges |-> lastIo.merges + (IF data = <<>> THEN 0 ELSE 1),
                rest |-> data \o lastIo.rest]
  /\ UNCHANGED nonInputVars

\* the number of Reads that returned EOF since the last character was read
EofReads ==
  IF input.cur = 0 THEN 0
  ELSE input.streams[input.cur].at - Len(input.streams[input.cur].data) + 1

\* the call returns r
ReadReturns(r) ==
  /\ input' = r.s
  /\ lastIo' = [op |-> "Read", ch |-> r.ch, err |-> r.err, s |-> input,
                merges |-> lastIo.merges, was |-> lastIo.rest,
                rest |-> IF lastIo.rest = <<>> THEN <<>> ELSE Tail(lastIo.rest)]
  /\ UNCHANGED nonInputVars

\* ch, err := s.Read()
DoRead ==
  /\ ~Crashed
  /\ EofReads < MaxEofReads
  /\ ReadReturns(Read(input))

\* the call returns r
PeekReturns(r) ==
  /\ lastIo' = [op |-> "Peek", ch |-> r.ch, err |-> r.err, s |-> input,
                merges |-> lastIo.merges, rest |-> lastIo.rest]
  /\ UNCHANGED input
  /\ UNCHANGED nonInputVars

\* ch, err := s.Peek()
DoPeek ==
  /\ lastIo.op # "Peek"
  /\ PeekReturns(Peek(input))

NextStream ==
  \/ \E data \in MergeData : DoMerge(data)
  \/ DoRead
  \/ DoPeek

SpecStream == InitStream /\ [][NextStream]_vars

(***************************************************************************)
(* Properties of the input stream                                          *)
(***************************************************************************)
\* C21: the Reads after MergeFromString(M) return the characters of M in
\* order, then the characters that were unread before the merge, in order,
\* then EOF, also when merges are nested; a merge of the empty string changes
\* nothing.
C21_Merge ==
  /\ lastIo.op = "Read" /\ lastIo.was # <<>> =>
       lastIo.ch = Head(lastIo.was) /\ lastIo.err = "nil"
  /\ lastIo.op = "Read" /\ lastIo.was = <<>> =>
       lastIo.ch = NoChar /\ lastIo.err = "EOF"
  /\ lastIo.op = "Merge" /\ lastIo.data = <<>> => input = lastIo.s

\* after a merge into a merge into the first data, a Read has come back to
\* the first data and returned its last character
C21_Witness ==
  /\ lastIo.op = "Read"
  /\ lastIo.merges = 3
  /\ Len(input.streams) = 5
  /\ input.cur = 5
  /\ lastIo.ch = "b"
  /\ lastIo.rest = <<>>

\* C22: Peek returns the character and the error the next Read returns, also
\* when the current context is exhausted and another follows it, and leaves
\* the Stream as it was.
C22_Peek ==
  lastIo.op = "Peek" =>
    /\ lastIo.ch = Read(input).ch
    /\ lastIo.err = Read(input).err
    /\ input = lastIo.s


(***************************************************************************)
(* The allocator's spills and fills, step by step.  A step of the pass     *)
(* (AllocFill1, AllocFill2, AllocEmit) runs generateSpill at most once;    *)
(* when it does, the step appends one "spilled:" line to the output, and   *)
(* the active list and the no-spill set generateSpill sees are those of    *)
(* the state before the step (generateFill only pushes the free slot       *)
(* before it calls generateSpill).                                         *)
(***************************************************************************)

\* the step ran generateSpill, which spilled an element
SpillStep == Len(Events(out', "spilled")) = Len(Events(out, "spilled")) + 1

\* the element the step spilled
Victim == Last(Events(out', "spilled")).addr

\* the step ran generateFill, which re-activated an element
FillStep == Len(Events(out', "filled")) = Len(Events(out, "filled")) + 1

\* the element the step re-activated
Refilled == Last(Events(out', "filled")).addr

\* the active elements that are not in the no-spill set
Spillable(m) ==
  {m.ActiveElements[i] : i \in DOMAIN m.ActiveElements} \ m.NoSpillElements

\* the positions of element a in the active list
PositionsOf(m, a) == {i \in DOMAIN m.ActiveElements : m.ActiveElements[i] = a}

\* C23: whenever generateSpill spills, its victim is an active element that
\* is not in the no-spill set of the current step, no such element has a
\* larger live_end, and those of equal live_end come later in the active list
C23_SpillVictim ==
  [][SpillStep =>
       /\ Victim \in Spillable(mc)
       /\ \A a \in Spillable(mc) :
            /\ At(new_ctx, a).LiveEnd <= At(new_ctx, Victim).LiveEnd
            /\ At(new_ctx, a).LiveEnd = At(new_ctx, Victim).LiveEnd /\ a # Victim
                 => \A i \in PositionsOf(mc, Victim), j \in PositionsOf(mc, a) :
                      i < j]_vars

\* what generateSpill does choose: an element of the no-spill set
VictimIsNoSpill == [][SpillStep => Victim \in mc.NoSpillElements]_vars

\* AllocateRegisters is running
Allocating == pc \in {"loop", "fill1", "fill2", "dst"}

\* the register recorded for active element number i
ActiveReg(i) == At(new_ctx, mc.ActiveElements[i]).DstRegister

\* the registers recorded for the active elements
ActiveRegs == {ActiveReg(i) : i \in DOMAIN mc.ActiveElements}

\* the registers on the free stack
FreeRegSet == {mc.FreeRegs[i] : i \in DOMAIN mc.FreeRegs}

\* C24: at every point of AllocateRegisters no register is held by two active
\* elements, none is both free and held, the free stack has no duplicate, and
\* the free registers with those of the active elements are exactly 1..N-1
C24_RegisterExclusive ==
  Allocating =>
    /\ \A i, j \in DOMAIN mc.ActiveElements : i # j => ActiveReg(i) # ActiveReg(j)
    /\ FreeRegSet \cap ActiveRegs = {}
    /\ \A i, j \in DOMAIN mc.FreeRegs : i # j => mc.FreeRegs[i] # mc.FreeRegs[j]
    /\ FreeRegSet \cup ActiveRegs = 1..(num_regs - 1)


\* the SPILL at address j writes a slot whose value, saved by an earlier
\* SPILL, no FILL has reloaded in between
SlotBusy(j) ==
  \E j0 \in 0..(j - 1) :
    /\ At(new_ctx, j0).Op = SSA_SPILL
    /\ At(new_ctx, j0).Src1 = At(new_ctx, j).Src1
    /\ ~\E f \in (j0 + 1)..(j - 1) :
          /\ At(new_ctx, f).Op = SSA_FILL
          /\ At(new_ctx, f).Src1 = At(new_ctx, j).Src1

\* the slots on the free-slot stack
FreeSlotSet == {mc.FreeSpillSlots[i] : i \in DOMAIN mc.FreeSpillSlots}

\* C25: no SPILL writes a slot that holds a spilled value not yet reloaded by
\* its FILL; the spill map is injective; no slot of the spill map is on the
\* free-slot stack
C25_SlotExclusive ==
  pc \in AllocPcs \ {"panic"} =>
    /\ \A j \in 0..(new_ctx.LastElementId - 1) :
         At(new_ctx, j).Op = SSA_SPILL => ~SlotBusy(j)
    /\ \A a, b \in DOMAIN mc.SpillMap :
         a # b => mc.SpillMap[a] # mc.SpillMap[b]
    /\ FreeSlotSet \cap {mc.SpillMap[a] : a \in DOMAIN mc.SpillMap} = {}


\* the values the element being rewritten reads: its element-reference
\* operands, a FILL standing for the value it reloaded
OperandValues(e) ==
  IF IsAlu(e)
    THEN {ValueOf(e.Src1) : t \in {e.Src1Type} \cap {SSA_TYPE_ELEMENT}}
         \cup {ValueOf(e.Src2) : t \in {e.Src2Type} \cap {SSA_TYPE_ELEMENT}}
    ELSE {}

\* C26: within one step of the allocator, no fill and no destination-register
\* selection spills an operand of the element being rewritten, whether that
\* operand was just filled or was in a register already
C26_OperandsKept == [][SpillStep => Victim \notin OperandValues(el)]_vars


\* the FILL element the step has written: generateFill ends with its Write
FillWrittenEl == At(new_ctx', new_ctx'.LastElementId - 1)

\* C27: when generateFill reloads a spilled element into target register t,
\* the register recorded for the re-activated element is t from then on (the
\* register its expiry will push on the free stack)
C27_FillRecordsRegister ==
  [][FillStep =>
       At(new_ctx', Refilled).DstRegister = FillWrittenEl.DstRegister]_vars

\* what generateFill does: the re-activated element keeps the register it
\* had before it was spilled
FillKeepsRegister ==
  [][FillStep =>
       /\ FillWrittenEl.Op = SSA_FILL
       /\ At(new_ctx', Refilled).DstRegister = At(new_ctx, Refilled).DstRegister]_vars


\* the step starts the processing of surviving source element ssa_id
ExpiryStep == pc = "loop" /\ pc' \in {"fill1", "dst"}

\* the active elements whose live range reaches source element i, and those
\* whose live range ended before it, in the order of the active list
KeptAt(i) == SelectSeq(mc.ActiveElements, LAMBDA a : At(new_ctx, a).LiveEnd >= i)

ExpiredAt(i) == SelectSeq(mc.ActiveElements, LAMBDA a : At(new_ctx, a).LiveEnd < i)

\* the registers recorded for the elements of q, in order
RegsOf(q) == [k \in DOMAIN q |-> At(new_ctx, q[k]).DstRegister]

\* C28: at the start of processing surviving source element i, exactly the
\* active elements with live_end < i leave the active list, the register of
\* each is pushed on the free stack once, and the elements with live_end >= i
\* stay in their relative order
C28_Expiry ==
  [][ExpiryStep =>
       /\ mc'.ActiveElements = KeptAt(ssa_id)
       /\ mc'.FreeRegs = mc.FreeRegs \o RegsOf(ExpiredAt(ssa_id))]_vars

\* source element 3 has just been started: one active element expired, the
\* two others stay
C28_Witness ==
  /\ pc \in {"fill1", "dst"}
  /\ ssa_id = 3
  /\ el.ActiveEnd = 3
  /\ Len(mc.ActiveElements) = 2
  /\ Len(mc.FreeRegs) = 1


\* the slots written by the SPILL elements of the rewritten log
SlotsUsed ==
  {At(new_ctx, a).Src1 : a \in {OpAddrs(new_ctx, SSA_SPILL)[k] :
                                  k \in DOMAIN OpAddrs(new_ctx, SSA_SPILL)}}

\* the spill room the rewritten log needs: one more than its largest slot
SpillRoomUsed == IF SlotsUsed = {} THEN 0 ELSE Max(SlotsUsed) + 1

SpillRoomReturned ==
  pc = "done" =>
    /\ new_ctx.SpillRoomNeeded = Cardinality(SlotsUsed)
    /\ new_ctx.SpillRoomNeeded = SpillRoomUsed

\* C29: after AllocateRegisters returns, spill_room_needed of the rewritten
\* context is the number of distinct spill slots used, one more than the
\* largest slot of any SPILL element (0 without SPILL), and it never
\* decreases during the pass
C29_SpillRoom ==
  /\ []SpillRoomReturned
  /\ [][new_ctx'.SpillRoomNeeded >= new_ctx.SpillRoomNeeded]_vars


\* a finished pass that used two slots, the first of them three times
C29_Witness ==
  /\ pc = "done"
  /\ SlotsUsed = {0, 1}
  /\ new_ctx.SpillRoomNeeded = 2
  /\ Len(OpAddrs(new_ctx, SSA_SPILL)) = 4


\* C30: after AllocateRegisters returns, every surviving source element has
\* the DstRegister of its rewritten copy, and the source elements skipped as
\* dead code keep DstRegister 0
C30_RegisterPropagated ==
  pc = "done" =>
    \A i \in 0..(ctx.LastElementId - 1) :
      IF Alive(i)
        THEN /\ CopiesOf(i) = {mc.RenameMap[i]}
             /\ At(ctx, i).DstRegister = At(new_ctx, mc.RenameMap[i]).DstRegister
             /\ At(ctx, i).DstRegister \in 1..(num_regs - 1)
        ELSE At(ctx, i).DstRegister = 0

\* a finished pass with a skipped element, and a surviving element whose copy
\* sits at another address, in register 2
C30_Witness ==
  /\ pc = "done"
  /\ \E i \in 0..(ctx.LastElementId - 1) : ~Alive(i)
  /\ \E i \in 0..(ctx.LastElementId - 1) :
       /\ Alive(i)
       /\ mc.RenameMap[i] # i
       /\ At(ctx, i).DstRegister = 2
       /\ At(new_ctx, mc.RenameMap[i]).DstRegister = 2


\* C31: register 0 is never allocated; every element of the rewritten
\* context, SPILL and FILL elements included, has DstRegister in 1..N-1
C31_RegisterZeroReserved ==
  pc \in AllocPcs =>
    \A a \in 0..(new_ctx.LastElementId - 1) :
      At(new_ctx, a).DstRegister \in 1..(num_regs - 1)

\* a finished pass whose rewritten log holds a copy, a SPILL and a FILL, and
\* uses the highest register
C31_Witness ==
  /\ pc = "done"
  /\ num_regs = 3
  /\ \E a, b, c \in 0..(new_ctx.LastElementId - 1) :
       /\ At(new_ctx, a).Op = SSA_SPILL
       /\ At(new_ctx, b).Op = SSA_FILL
       /\ At(new_ctx, c).Op = SSA_ADD
       /\ At(new_ctx, c).DstRegister = 2
       /\ At(new_ctx, b).DstRegister = 1


\* every element of context c has a live range that does not end before it
\* starts
LiveRangesOrdered(c) ==
  \A a \in 0..(c.LastElementId - 1) : At(c, a).LiveEnd >= At(c, a).LiveStart

\* C32: in every context built by Write, Eval and LoadInt and in every
\* context AllocateRegisters produces each element has LiveEnd >= LiveStart;
\* with live checks enabled LiveStart is the Address the element was
\* inserted at
C32_LiveRangeOrdered ==
  /\ LiveRangesOrdered(ctx)
  /\ LiveRangesOrdered(new_ctx)
  /\ \A a \in 0..(ctx.LastElementId - 1) :
       At(ctx, a).LiveStart = At(ctx, a).Address /\ At(ctx, a).Address = a

\* a finished pass: the source holds an element read after its insertion,
\* the rewritten context its copy at another address, a SPILL and a FILL
C32_Witness ==
  /\ pc = "done"
  /\ \E a \in 0..(ctx.LastElementId - 1) :
       /\ a \in DOMAIN mc.RenameMap
       /\ At(ctx, a).LiveEnd > At(ctx, a).LiveStart
       /\ At(ctx, a).LiveStart = 1
       /\ mc.RenameMap[a] > a
       /\ At(new_ctx, mc.RenameMap[a]).LiveEnd > At(new_ctx, mc.RenameMap[a]).LiveStart
  /\ OpAddrs(new_ctx, SSA_SPILL) # <<>>
  /\ OpAddrs(new_ctx, SSA_FILL) # <<>>


(***************************************************************************)
(* SpecPass: a client builds a source log of blank elements and pinned     *)
(* ADD elements with Write and calls AllocateRegisters, which then runs    *)
(* on: it is sequential code, so a step of its loop that can be taken is   *)
(* taken.                                                                  *)
(***************************************************************************)
\* the elements the client of SpecPass writes
PassArgs(c) == {e \in WriteArgs(c) : e.Op \in {SSA_CALL, SSA_ADD}}

NextPass ==
  \/ \E e \in PassArgs(ctx) : DoWrite(e, MaxElems)
  \/ \E n \in 1..MaxRegs : AllocBegin(n)
  \/ AllocLoop

SpecPass == Init /\ [][NextPass]_vars /\ WF_vars(AllocLoop)

\* the number of elements with operation op at the addresses lo..hi of the
\* rewritten log
AuxIn(lo, hi, op) == Cardinality({a \in lo..hi : At(new_ctx, a).Op = op})

\* the address after the copy number n - 1: where the elements written for
\* surviving element number n start
CopyStart(n) == IF n = 1 THEN 0 ELSE Copies[n - 1] + 1

\* the elements written for one surviving element: at most two FILL and at
\* most three SPILL elements
AuxBounded(lo, hi) ==
  /\ AuxIn(lo, hi, SSA_FILL) <= 2
  /\ AuxIn(lo, hi, SSA_SPILL) <= 3

\* every surviving element gone through has one copy, and each copy, as
\* well as the element being rewritten, has its SPILL and FILL elements
\* within the bounds
PassBounded ==
  pc \in AllocPcs =>
    /\ Len(Copies) = Len(Survivors(ssa_id))
    /\ \A i \in 0..(ssa_id - 1) : Alive(i) => Cardinality(CopiesOf(i)) = 1
    /\ \A n \in DOMAIN Copies : AuxBounded(CopyStart(n), Copies[n])
    /\ AuxBounded(CopyStart(Len(Copies) + 1), new_ctx.LastElementId - 1)

\* one pass: the loop index only moves forward by one, and the pass returns
\* when it has gone through the whole source log
SinglePass ==
  /\ pc \in AllocPcs => ssa_id' \in {ssa_id, ssa_id + 1}
  /\ pc' = "done" => ssa_id' = ctx'.LastElementId

\* C33: AllocateRegisters terminates (returns, or fails) after one pass over
\* the source log, and each surviving source element contributes exactly one
\* copy, at most two FILL and at most three SPILL elements to the rewritten
\* log
C33_OnePass ==
  /\ []PassBounded
  /\ [][SinglePass]_vars
  /\ (pc = "loop" ~> pc \in {"done", "panic"})

\* a finished pass whose last element was written after three SPILL and two
\* FILL elements
C33_Witness ==
  /\ pc = "done"
  /\ Len(Copies) = 3
  /\ AuxIn(CopyStart(3), Copies[3], SSA_SPILL) = 3
  /\ AuxIn(CopyStart(3), Copies[3], SSA_FILL) = 2


(***************************************************************************)
(* SpecDispatch: the client may bind a, writes up to MaxDispatch           *)
(* instructions, among them NOP and operations Dispatch has no case for,   *)
(* and dispatches them one call at a time.                                 *)
(***************************************************************************)
\* longest program written under SpecDispatch
MaxDispatch == 3

\* opcodes next to NOP, LOAD, BIND and ADD
LEN == 2

BOXI == 18

\* the operations written with the ALU writer: no case of Dispatch's
\* execution stage but NOP's names them
OtherOps == {NOP, LEN, BOXI, ADD}

\* target registers of the LOAD and BIND instructions
DispatchRegisters == {3, 15}

DispatchWrite ==
  \/ \E name \in Names, register \in DispatchRegisters :
       DoWriteLoad(name, register, FALSE, 0, MaxDispatch)
  \/ \E name \in Names, register \in DispatchRegisters :
       DoWriteBind(name, register, FALSE, 0, MaxDispatch)
  \/ \E op \in OtherOps : DoWriteAluIns(op, 4, 5, 3, FALSE, 0, MaxDispatch)

NextDispatch ==
  \/ ProgBindLocal(10)
  \/ DispatchWrite
  \/ DoDispatch

SpecDispatch == InitProgram /\ [][NextDispatch]_vars

\* the number of instructions dispatched so far
DispatchedWords == Len(Code) - Len(stream.Buffer) \div 4

\* the opcode of the instruction number k the client wrote
WrittenOp(k) ==
  IF Code[k][1] = "WriteLoad" THEN LOAD
  ELSE IF Code[k][1] = "WriteBind" THEN BIND
  ELSE Code[k][2]

\* C34: Dispatch consumes one 32-bit word per call, in stream order; a word
\* whose opcode is NOP or no implemented operation leaves the registers, the
\* predicate bits, the locals and the globals as they were; LOAD changes
\* only R[rd]; BIND changes only locals[imm]
C34_DispatchFrame ==
  lastOp.op = "Dispatch" =>
    /\ stream.Buffer = SubSeq(lastOp.s.Buffer, 5, Len(lastOp.s.Buffer))
    /\ Len(lastOp.s.Buffer) = Len(stream.Buffer) + 4
    /\ Decoded0.op = WrittenOp(DispatchedWords)
    /\ stream.Strings = lastOp.s.Strings
    /\ stream.StringCounter = lastOp.s.StringCounter
    /\ stream.Globals = lastOp.s.Globals
    /\ machine.Pred = lastOp.m.Pred
    /\ machine.NextInstruction = lastOp.m.NextInstruction
    /\ Decoded0.op \notin {LOAD, BIND} =>
         machine = lastOp.m /\ stream.Locals = lastOp.s.Locals
    /\ Decoded0.op = LOAD =>
         /\ stream.Locals = lastOp.s.Locals
         /\ \A r \in 0..15 :
              r # Decoded0.reg3 => machine.Register[r] = lastOp.m.Register[r]
    /\ Decoded0.op = BIND =>
         /\ machine = lastOp.m
         /\ DOMAIN stream.Locals = DOMAIN lastOp.s.Locals \cup {Decoded0.imm}
         /\ \A k \in DOMAIN lastOp.s.Locals :
              k # Decoded0.imm => stream.Locals[k] = lastOp.s.Locals[k]

\* a was bound and loaded into r3, r3 was bound to b, and the third word, a
\* BOXI instruction (decoded with register 4), has just been dispatched: r3
\* and both locals hold the object
C34_Witness ==
  /\ lastOp.op = "Dispatch"
  /\ DispatchedWords = 3
  /\ Decoded0.op = BOXI
  /\ Decoded0.reg3 = 4
  /\ machine.Register[3] = IntObject(1, 10)
  /\ lastOp.m.Register[3] = IntObject(1, 10)
  /\ Cardinality(DOMAIN stream.Locals) = 2
  /\ \A k \in DOMAIN stream.Locals : stream.Locals[k] = IntObject(1, 10)


(***************************************************************************)
(* SpecFields: one LOAD or BIND instruction written with register and      *)
(* predicate-register arguments inside and outside their fields (both are  *)
(* uint32 parameters).                                                     *)
(***************************************************************************)
\* register arguments: the ends of the 4-bit field and values beyond it
WideRegisters == {0, 15, 16, 17}

\* predicate-register arguments: the ends of the 5-bit field and values
\* beyond it
WidePredRegisters == {0, 31, 32, 512}

NextFields ==
  \/ /\ Len(stream.Buffer) < 4 * MaxWords
     /\ \E name \in Names, register \in WideRegisters, pred_bit \in BOOLEAN,
           pred_reg \in WidePredRegisters :
           DoWriteLoad(name, register, pred_bit, pred_reg, MaxWords)
  \/ /\ Len(stream.Buffer) < 4 * MaxWords
     /\ \E name \in Names, register \in WideRegisters, pred_bit \in BOOLEAN,
           pred_reg \in WidePredRegisters :
           DoWriteBind(name, register, pred_bit, pred_reg, MaxWords)

SpecFields == InitEncode /\ [][NextFields]_vars

\* C35: for any register and predicate-register argument of WriteLoad and
\* WriteBind, also register >= 16 and pred_reg >= 32, the opcode field of the
\* word written is LOAD or BIND and its immediate field is the id of the name
C35_FieldIsolation ==
  WroteImm =>
    /\ DecodedOp(LastWord) = lastOp.opcode
    /\ Field(LastWord, 16, 31) = lastOp.ret

\* what does hold for every argument: the opcode field
OpcodeIsolated == WroteImm => DecodedOp(LastWord) = lastOp.opcode

\* and with the arguments inside their fields, the immediate field
ImmediateInRange ==
  WroteImm /\ lastOp.register < 16 /\ lastOp.pred_reg < 32 =>
    Field(LastWord, 16, 31) = lastOp.ret


(***************************************************************************)
(* The block nesting of the lines scanned so far: the enclosing widths, as *)
(* the indentation rule of the language keeps them (0 at the bottom; a     *)
(* deeper line opens a block, a shallower one closes the deeper blocks).   *)
(* A line of blanks alone counts with its width, as Scan measures it; an   *)
(* empty line does not count.                                              *)
(***************************************************************************)
\* the start of the line after the one that starts at place p
RECURSIVE NextLineStart(_, _)
NextLineStart(src, p) ==
  IF p > Len(src) THEN p
  ELSE IF src[p] = "\n" THEN p + 1
  ELSE NextLineStart(src, p + 1)

\* the enclosing widths once the blocks deeper than width n are closed
RECURSIVE PopTo(_, _)
PopTo(widths, n) ==
  IF Len(widths) > 1 /\ Last(widths) > n THEN PopTo(Front(widths), n) ELSE widths

\* the enclosing widths after a line whose indentation was measured as m
Nest(widths, m) ==
  IF m.n = 0 /\ Ch(m.s) \in {"\n", "EOF"} THEN widths
  ELSE IF m.n > Last(widths) THEN Append(widths, m.n)
  ELSE PopTo(widths, m.n)

\* the enclosing widths after the lines from place p on that scanner sc has
\* begun to read
RECURSIVE Nesting(_, _, _)
Nesting(sc, p, widths) ==
  IF p >= sc.pos \/ p > Len(sc.src)
    THEN widths
    ELSE Nesting(sc, NextLineStart(sc.src, p),
                 Nest(widths, MeasureIndent([sc EXCEPT !.pos = p], 0)))

\* the current block nesting depth
NestingDepth == Len(Nesting(scanner, 1, <<0>>)) - 1

\* C36: for every input indentPos stays within 0..1023 and never exceeds
\* the current block nesting depth (so that lines that indent and dedent in
\* turn do not grow the stack)
C36_IndentStackBounded ==
  /\ scanner.indentPos \in 0..(IndentStackLen - 1)
  /\ scanner.indentPos <= NestingDepth


(***************************************************************************)
(* The indentation width.  A source of one line that starts with a run of  *)
(* spaces and tabs is scanned to its end.                                  *)
(***************************************************************************)
MaxBlanks == 3

RECURSIVE RunsOf(_)
RunsOf(n) ==
  IF n = 0 THEN {<<>>} ELSE {run \o <<ch>> : run \in RunsOf(n - 1), ch \in Blanks}

Spaces(n) == [i \in 1..n |-> " "]

\* every run of 1..MaxBlanks blanks, and a tab after seven and after eight spaces
BlankRuns ==
  UNION {RunsOf(n) : n \in 1..MaxBlanks} \cup {Spaces(7) \o <<"\t">>, Spaces(8) \o <<"\t">>}

InitWidth ==
  /\ InitSsa
  /\ InitNoCode
  /\ InitNoObj
  /\ InitNoInput
  /\ \E run \in BlankRuns, content \in Contents :
       scanner = InitScanner(run \o content \o <<"\n">>)
  /\ lastScan = [op |-> "Init", tok |-> "Init"]

SpecWidth == InitWidth /\ [][NextScan]_vars

\* the run of spaces and tabs that starts at place p of the source
RECURSIVE BlankRun(_, _)
BlankRun(src, p) ==
  IF p <= Len(src) /\ src[p] \in Blanks THEN <<src[p]>> \o BlankRun(src, p + 1) ELSE <<>>

\* the next multiple of 8 after width w
TabStop(w) == CHOOSE m \in (w + 1)..(w + 8) : m % 8 = 0

\* the width of a run: 1 per space, on to the next multiple of 8 per tab
RECURSIVE RunWidth(_)
RunWidth(run) ==
  IF run = <<>> THEN 0
  ELSE IF Last(run) = " " THEN RunWidth(Front(run)) + 1
  ELSE TabStop(RunWidth(Front(run)))

\* the last Scan measured a run of blanks and stored its width
Measured == lastScan.op = "Scan" /\ lastScan.tok \in {"Indent", "Dedent"}

\* C37: the width measured for a run of leading spaces and tabs is got by
\* adding 1 per space and advancing to the next multiple of 8 per tab (a tab
\* at a width that is a multiple of 8 advances by 8); the Scan that measures
\* the run stores that width on the indent stack.
C37_IndentWidth ==
  Measured => Top(scanner) = RunWidth(BlankRun(lastScan.s.src, lastScan.s.pos))

\* two tabs and a space were measured as 17: the second tab, at width 8,
\* advanced by a full 8
C37_Witness ==
  /\ Measured
  /\ BlankRun(lastScan.s.src, lastScan.s.pos) = <<"\t", "\t", " ">>
  /\ Top(scanner) = 17

====
